---- MODULE Spec2Model ----
(***************************************************************************)
(* Model of the tariff evaluation engine of amberelectic-api-tools         *)
(* (tariff.py, util.py) and of the monthly invoice estimate                *)
(* (amber_invoice_estimate.py).                                            *)
(*                                                                         *)
(* Decimal quantities (kWh, unit prices) are fixed-point numbers with      *)
(* Scale units per whole: a kWh value k is stored as k * Scale.  Cents      *)
(* configured in a tariff are whole numbers.  JSON values are tagged        *)
(* records [t, v] so that values of different JSON types can be compared.   *)
(***************************************************************************)
EXTENDS Integers, Sequences, FiniteSets, TLC

VARIABLES
    the_account,      \* the AccountConfig shared by tariffs and components
    cj,               \* declarative source of the last TariffComponent(...)
    the_component,    \* the TariffComponent built from cj, or the raised error
    tj,               \* declarative source of the last Tariff(...)
    the_tariff,       \* the Tariff built from tj, or the raised error
    the_month,        \* YearMonth argument of the last call
    the_usages,       \* usage sequence argument of the last call
    result,           \* return value (or raised error) of the last call
    peak_log,         \* usage record named by the "Peak demand ... found at" log line
    the_args,         \* the remaining arguments of the last call
    the_config,       \* what the invoice estimate's main() has loaded from its configuration
    run,              \* locals of the script's run: months, batches still to fetch, collected results
    requests,         \* the client.get_usage calls made so far, in order
    output,           \* what the script has printed so far
    pc                \* name of the last operation performed

vars == <<the_account, cj, the_component, tj, the_tariff,
          the_month, the_usages, result, peak_log, the_args, the_config,
          run, requests, output, pc>>

----------------------------------------------------------------------------
(* Bounds of the model *)

Scale == 10          \* fixed-point units per kWh / per cent
MaxUsages == 2       \* longest usage sequence passed to an operation
MaxComponents == 2   \* longest components list of a tariff source
MaxFetched == 3      \* most usage records fetched for a month
MaxBatch == 2        \* most usage records one get_usage call returns
MaxMonths == 2       \* most months requested in one run
MaxSpan == 44        \* longest range of dates streamed, in days

----------------------------------------------------------------------------
(* JSON values and Python semantics used by the constructors *)

JNone == [t |-> "none", v |-> 0]
JNum(n) == [t |-> "num", v |-> n]
JBool(b) == [t |-> "bool", v |-> b]
JStr(s) == [t |-> "str", v |-> s]
JList(s) == [t |-> "list", v |-> s]

NoUsage == [id |-> 0]

Raise(e) == [exc |-> e]

IsExc(x) == "exc" \in DOMAIN x

\* dict.get(key): the value, or None when the key is absent
Get(json, key) == IF key \in DOMAIN json THEN json[key] ELSE JNone

\* Python truth value of a JSON value, as used by filter(None, ...) and `if x:`
Truthy(val) ==
    CASE val.t = "none" -> FALSE
      [] val.t = "num" -> val.v # 0
      [] val.t = "bool" -> val.v
      [] val.t = "str" -> val.v # ""
      [] val.t = "list" -> Len(val.v) > 0

\* Python `flag == val` for a bool flag and an arbitrary JSON value
BoolEq(flag, val) ==
    CASE val.t = "bool" -> val.v = flag
      [] val.t = "num" -> val.v = (IF flag THEN 1 ELSE 0)
      [] OTHER -> FALSE

\* Python `n == val` for an int n and a JSON value that passed isinstance(v, int)
IntEq(n, val) ==
    CASE val.t = "num" -> val.v = n
      [] val.t = "bool" -> n = (IF val.v THEN 1 ELSE 0)
      [] OTHER -> FALSE

Range(s) == {s[i] : i \in DOMAIN s}

RECURSIVE SumSeq(_)
SumSeq(s) == IF s = <<>> THEN 0 ELSE Head(s) + SumSeq(Tail(s))

\* a whole number as a fixed-point decimal
Fx(n) == n * Scale

\* Python round(num / den) for den > 0: nearest integer, halves to even
Round(num, den) ==
    LET q == num \div den
        r == num % den
    IN  IF 2 * r < den THEN q
        ELSE IF 2 * r > den THEN q + 1
        ELSE IF q % 2 = 0 THEN q ELSE q + 1

----------------------------------------------------------------------------
(* util.py: dates, YearMonth, TariffCalendar *)

is_leap(year) == year % 4 = 0 /\ (year % 100 # 0 \/ year % 400 = 0)

DAYS_BEFORE_MONTH == <<0, 31, 59, 90, 120, 151, 181, 212, 243, 273, 304, 334>>

\* proleptic Gregorian ordinal of a date, as datetime.date computes it
toordinal(year, mon, day) ==
    LET y == year - 1
    IN  y * 365 + (y \div 4) - (y \div 100) + (y \div 400)
        + DAYS_BEFORE_MONTH[mon] + (IF mon > 2 /\ is_leap(year) THEN 1 ELSE 0)
        + day

YearMonth(year, mon) == [year |-> year, month |-> mon]

first_date(ym) == toordinal(ym.year, ym.month, 1)

last_date(ym) ==
    IF ym.month = 12
        THEN toordinal(ym.year + 1, 1, 1) - 1
        ELSE toordinal(ym.year, ym.month + 1, 1) - 1

\* YearMonth.__lt__
YearMonth_lt(self, other) ==
    self.year < other.year \/ (self.year = other.year /\ self.month < other.month)

\* YearMonth.__eq__
YearMonth_eq(self, o) == o.year = self.year /\ o.month = self.month

DAYS_IN_MONTH == <<31, 28, 31, 30, 31, 30, 31, 31, 30, 31, 30, 31>>

\* the days of a month, as datetime.date validates a day
days_in_month(year, mon) == IF mon = 2 /\ is_leap(year) THEN 29 ELSE DAYS_IN_MONTH[mon]

\* the_date.replace(year=year, month=mon): ValueError when the day does not
\* exist in that month
date_replace(the_date, year, mon) ==
    IF the_date.day > days_in_month(year, mon)
        THEN Raise("ValueError")
        ELSE [year |-> year, month |-> mon, day |-> the_date.day]

\* one_month_ago(), the_date being date.today()
one_month_ago(the_date) ==
    IF the_date.month # 1
        THEN date_replace(the_date, the_date.year, the_date.month - 1)
        ELSE date_replace(the_date, the_date.year - 1, 12)

\* last_year_month()
last_year_month(today) ==
    LET last_month == one_month_ago(today)
    IN  IF IsExc(last_month) THEN last_month
        ELSE YearMonth(last_month.year, last_month.month)

total_days_exclusive(ym) == last_date(ym) - first_date(ym)

total_days(ym) == (last_date(ym) - first_date(ym)) + 1

isoweekday(dt) ==
    LET w == toordinal(dt.year, dt.month, dt.day) % 7 IN IF w = 0 THEN 7 ELSE w

FRIDAY_ISO_WEEKDAY == 5

\* A holiday pattern is a triple <<year, month, day>>; year 0 stands for the
\* regular expression \d{4}, which matches the year of every date.
fullmatch(pattern, dt) ==
    /\ pattern[1] \in {0, dt.year}
    /\ pattern[2] = dt.month
    /\ pattern[3] = dt.day

is_working_weekday(calendar, dt) ==
    IF isoweekday(dt) > FRIDAY_ISO_WEEKDAY THEN FALSE
    ELSE IF \E i \in DOMAIN calendar : fullmatch(calendar[i], dt) THEN FALSE
    ELSE TRUE

\* start_time.astimezone(tz).hour for a fixed-offset zone
local_hour(start_time, tz) == (start_time.hour + tz) % 24

----------------------------------------------------------------------------
(* tariff.py: construction of filters, components and tariffs *)

Ok(val) == [exc |-> "", val |-> val]

\* check_bool: the value itself when it is True or False
check_bool(val) == IF val.t = "bool" THEN Ok(val.v) ELSE Raise("ValueError")

\* PeriodType.from_str: the enum member named by an API label
PeriodType_from_str(val) ==
    IF val.t # "str" THEN Raise("NotImplementedError")
    ELSE CASE val.v = "peak" -> Ok("PEAK")
           [] val.v = "offPeak" -> Ok("OFF_PEAK")
           [] val.v = "shoulder" -> Ok("SHOULDER")
           [] val.v = "solarSponge" -> Ok("SOLAR_SPONGE")
           [] OTHER -> Raise("NotImplementedError")

\* ChannelType.from_str: the enum member named by an API label
ChannelType_from_str(val) ==
    IF val.t # "str" THEN Raise("NotImplementedError")
    ELSE CASE val.v = "general" -> Ok("GENERAL")
           [] val.v = "controlledLoad" -> Ok("CONTROLLED_LOAD")
           [] val.v = "feedIn" -> Ok("FEED_IN")
           [] OTHER -> Raise("NotImplementedError")

\* lambda x: int(x)
to_int(val) ==
    CASE val.t = "num" -> Ok(val.v)
      [] val.t = "bool" -> Ok(IF val.v THEN 1 ELSE 0)
      [] OTHER -> Raise("ValueError")

\* the constructor and validator given to create_usage_filter for each property
filter_type_constructor_and_validator(filter_property_name, val) ==
    CASE filter_property_name = "periodFilter" -> PeriodType_from_str(val)
      [] filter_property_name = "channelTypeFilter" -> ChannelType_from_str(val)
      [] filter_property_name = "hourFilter" -> to_int(val)
      [] filter_property_name = "workingWeekdayFilter" -> check_bool(val)

create_usage_filter(component_json, filter_property_name) ==
    IF filter_property_name \in DOMAIN component_json
    THEN LET given == component_json[filter_property_name]
             json_filter_values == IF given.t = "bool" THEN JList(<<given>>) ELSE given
         IN  IF json_filter_values.t # "list" THEN Raise("ValueError")
             ELSE LET typed == [i \in DOMAIN json_filter_values.v |->
                                    filter_type_constructor_and_validator(
                                        filter_property_name, json_filter_values.v[i])]
                      failed == {i \in DOMAIN typed : typed[i].exc # ""}
                  IN  IF failed # {}
                      THEN Raise(typed[CHOOSE i \in failed : \A j \in failed : i <= j].exc)
                      ELSE [t |-> "filter",
                            filter_name |-> filter_property_name,
                            typed_filter_values |-> {typed[i].val : i \in DOMAIN typed}]
    ELSE JNone

IsInstanceInt(val) == val.t \in {"num", "bool"}

NotNone(x) == x.t # "none"

TariffComponent_init(tariff_component_json, account_config) ==
    IF "amberLabel" \notin DOMAIN tariff_component_json THEN Raise("ValueError")
    ELSE
    LET created == <<
            create_usage_filter(tariff_component_json, "periodFilter"),
            create_usage_filter(tariff_component_json, "channelTypeFilter"),
            create_usage_filter(tariff_component_json, "hourFilter"),
            create_usage_filter(tariff_component_json, "workingWeekdayFilter") >>
        failed == {i \in DOMAIN created : IsExc(created[i])}
        month_values == Get(tariff_component_json, "monthFilter")
        per_kwh == Get(tariff_component_json, "centsPerKwh")
        per_day == Get(tariff_component_json, "centsPerDay")
        per_peak == Get(tariff_component_json, "centsPerPeakDemandKwPerDay")
    IN  IF failed # {} THEN created[CHOOSE i \in failed : \A j \in failed : i <= j]
        ELSE IF /\ "monthFilter" \in DOMAIN tariff_component_json
                /\ ~ (/\ month_values.t = "list"
                      /\ \A i \in DOMAIN month_values.v : IsInstanceInt(month_values.v[i]))
             THEN Raise("ValueError")
        ELSE IF Len(SelectSeq(<<per_kwh, per_day, per_peak>>, Truthy)) # 1
             THEN Raise("ValueError")
        ELSE [t |-> "TariffComponent",
              account_config |-> account_config,
              amber_label |-> tariff_component_json["amberLabel"],
              dnsp_label |-> Get(tariff_component_json, "dnspLabel"),
              usage_filters |-> SelectSeq(created, NotNone),
              greenpower_filter |->
                  IF "greenPowerFilter" \in DOMAIN tariff_component_json
                  THEN [t |-> "lambda", pass_val |-> tariff_component_json["greenPowerFilter"]]
                  ELSE JNone,
              feed_in_filter |->
                  IF "feedInFilter" \in DOMAIN tariff_component_json
                  THEN [t |-> "lambda", pass_val |-> tariff_component_json["feedInFilter"]]
                  ELSE JNone,
              month_filter |->
                  IF "monthFilter" \in DOMAIN tariff_component_json
                  THEN [t |-> "lambda", month_values |-> month_values.v]
                  ELSE JNone,
              per_kwh_price_cents |-> per_kwh,
              per_day_price_cents |-> per_day,
              per_peak_demand_kw_per_day_price_cents |-> per_peak]

Tariff_init_unchecked(tariff_json, account_config) ==
    LET components == IF tariff_json.t = "dict" THEN Get(tariff_json.v, "components") ELSE JNone
        listed == IF components.t = "list" THEN components.v ELSE <<>>
        built == [i \in DOMAIN listed |-> TariffComponent_init(listed[i], account_config)]
        failed == {i \in DOMAIN built : IsExc(built[i])}
    IN  IF failed # {}
        THEN built[CHOOSE i \in failed : \A j \in failed : i <= j]
        ELSE [t |-> "Tariff",
              account_config |-> account_config,
              distribution_loss_factor |-> JNum(Fx(1)),
              components |-> built]

\* Tariff.__init__; the source is a JSON value (an object is [t |-> "dict", v |-> function]);
\* a loss factor is a fixed-point decimal
Tariff_init(tariff_json, account_config) ==
    IF tariff_json.t # "dict" THEN Raise("ValueError")
    ELSE LET components == Get(tariff_json.v, "components")
         IN  IF components.t # "list" THEN Raise("ValueError")
             ELSE LET built == [i \in DOMAIN components.v |->
                                    TariffComponent_init(components.v[i], account_config)]
                      failed == {i \in DOMAIN built : IsExc(built[i])}
                  IN  IF failed # {}
                      THEN built[CHOOSE i \in failed : \A j \in failed : i <= j]
                      ELSE [t |-> "Tariff",
                            account_config |-> account_config,
                            distribution_loss_factor |->
                                IF "distributionLossFactor" \in DOMAIN tariff_json.v
                                THEN tariff_json.v["distributionLossFactor"]
                                ELSE JNum(Fx(1)),
                            components |-> built]

----------------------------------------------------------------------------
(* tariff.py: filtering usage and pricing one component *)

\* the usage_attribute_selector given to create_usage_filter for each property
usage_attribute_selector(filter_property_name, usage, account_config) ==
    CASE filter_property_name = "periodFilter" -> usage.period
      [] filter_property_name = "channelTypeFilter" -> usage.channel_type
      [] filter_property_name = "hourFilter" ->
             local_hour(usage.start_time, account_config.account_timezone)
      [] filter_property_name = "workingWeekdayFilter" ->
             is_working_weekday(account_config.calendar, usage.date)

\* the closure usage_filter returned by create_usage_filter
usage_filter(f, usage, account_config) ==
    usage_attribute_selector(f.filter_name, usage, account_config) \in f.typed_filter_values

RECURSIVE apply_usage_filters(_, _, _)
apply_usage_filters(usage_filters, filtered_usages, account_config) ==
    IF usage_filters = <<>> THEN filtered_usages
    ELSE LET keep(u) == usage_filter(Head(usage_filters), u, account_config)
         IN  apply_usage_filters(Tail(usage_filters), SelectSeq(filtered_usages, keep),
                                 account_config)

filter_usages_first_filter(usages, component) ==
    IF component.usage_filters = <<>> THEN usages
    ELSE apply_usage_filters(<<Head(component.usage_filters)>>, usages,
                             component.account_config)

filter_usages_unfiltered(usages, component) == usages

filter_usages(usages, component) ==
    apply_usage_filters(component.usage_filters, usages, component.account_config)

RECURSIVE max_by_kwh_last(_, _)
max_by_kwh_last(best, items) ==
    IF items = <<>> THEN best
    ELSE max_by_kwh_last(IF Head(items).kwh >= best.kwh THEN Head(items) ELSE best,
                         Tail(items))

\* max(items, key=lambda u: u.kwh) continued from the best item seen so far
RECURSIVE max_by_kwh(_, _)
max_by_kwh(best, items) ==
    IF items = <<>> THEN best
    ELSE max_by_kwh(IF Head(items).kwh > best.kwh THEN Head(items) ELSE best, Tail(items))

LineItem(label, amount, unit_price, total_cost_cents) ==
    [t |-> "LineItem", label |-> label, amount_used |-> amount,
     unit_price |-> unit_price, total_cost |-> total_cost_cents]

\* the peak demand in kW of a half-hourly reading
peak_demand_kw_of(peak_demand_usage) == peak_demand_usage.kwh * 2

priced_line_keeping_zero(self, amount, unit_price, peak) ==
    [ret |-> LineItem(self.amber_label, amount, unit_price,
                      Round(amount * unit_price, Scale * Scale)),
     peak_demand_usage |-> peak]

priced_line_rounded_amount(self, amount, unit_price, peak) ==
    LET total_cost_cents == Round(Round(amount, Scale) * unit_price, Scale)
    IN  [ret |-> IF total_cost_cents # 0
                 THEN LineItem(self.amber_label, amount, unit_price, total_cost_cents)
                 ELSE JNone,
         peak_demand_usage |-> peak]

\* round(amount * unit_price) and the conditional LineItem of lines 140-141
priced_line(self, amount, unit_price, peak) ==
    LET total_cost_cents == Round(amount * unit_price, Scale * Scale)
    IN  [ret |-> IF total_cost_cents # 0
                 THEN LineItem(self.amber_label, amount, unit_price, total_cost_cents)
                 ELSE JNone,
         peak_demand_usage |-> peak]

suppressed_ignoring_month(self, month) ==
    \/ /\ NotNone(self.greenpower_filter)
       /\ ~ BoolEq(self.account_config.greenpower_active, self.greenpower_filter.pass_val)
    \/ /\ NotNone(self.feed_in_filter)
       /\ ~ BoolEq(self.account_config.feed_in_active, self.feed_in_filter.pass_val)

\* lines 105-117: the account-level and month filters that suppress a component
suppressed_by_filters(self, month) ==
    IF /\ NotNone(self.greenpower_filter)
       /\ ~ BoolEq(self.account_config.greenpower_active, self.greenpower_filter.pass_val)
    THEN TRUE
    ELSE IF /\ NotNone(self.feed_in_filter)
            /\ ~ BoolEq(self.account_config.feed_in_active, self.feed_in_filter.pass_val)
    THEN TRUE
    ELSE IF /\ NotNone(self.month_filter)
            /\ ~ \E i \in DOMAIN self.month_filter.month_values :
                     IntEq(month.month, self.month_filter.month_values[i])
    THEN TRUE
    ELSE FALSE

\* Returns [ret, peak_demand_usage]: the returned LineItem, None or raised
\* error, and the usage record the peak-demand log line reports (if any).
create_line_for_component(self, month, usages) ==
    IF suppressed_by_filters(self, month)
    THEN [ret |-> JNone, peak_demand_usage |-> NoUsage]
    ELSE IF Truthy(self.per_day_price_cents)
    THEN priced_line(self, Fx(total_days(month)), Fx(self.per_day_price_cents.v), NoUsage)
    ELSE LET filtered_usages == filter_usages(usages, self)
         IN  IF Truthy(self.per_kwh_price_cents)
             THEN priced_line(self,
                              SumSeq([i \in DOMAIN filtered_usages |-> filtered_usages[i].kwh]),
                              Fx(self.per_kwh_price_cents.v), NoUsage)
             ELSE IF Truthy(self.per_peak_demand_kw_per_day_price_cents)
             THEN IF filtered_usages = <<>>
                  THEN [ret |-> Raise("ValueError"), peak_demand_usage |-> NoUsage]
                  ELSE LET peak_demand_usage ==
                               max_by_kwh(Head(filtered_usages), Tail(filtered_usages))
                           peak_demand_kw == peak_demand_kw_of(peak_demand_usage)
                       IN  priced_line(self, Fx(total_days(month)),
                                       self.per_peak_demand_kw_per_day_price_cents.v
                                           * peak_demand_kw,
                                       peak_demand_usage)
             ELSE [ret |-> Raise("RuntimeError"), peak_demand_usage |-> NoUsage]

\* the tariff_component_filter predicates callers pass to get_fee_lines_for,
\* by name
tariff_component_filter(selector, c) ==
    CASE selector = "per_kwh_price_cents" -> Truthy(c.per_kwh_price_cents)
      [] selector = "per_day_price_cents" -> Truthy(c.per_day_price_cents)
      [] selector = "per_peak_demand_kw_per_day_price_cents" ->
             Truthy(c.per_peak_demand_kw_per_day_price_cents)
      [] selector = "all" -> TRUE

\* the loop of get_fee_lines_for over the components not yet visited;
\* line_items is the result list built so far
RECURSIVE fee_lines_loop(_, _, _, _, _)
fee_lines_loop(components, month, base_usages, selector, line_items) ==
    IF components = <<>> THEN JList(line_items)
    ELSE LET component == Head(components)
         IN  IF ~ tariff_component_filter(selector, component)
             THEN fee_lines_loop(Tail(components), month, base_usages, selector, line_items)
             ELSE LET line_item ==
                          create_line_for_component(component, month, base_usages).ret
                  IN  IF IsExc(line_item) THEN line_item
                      ELSE fee_lines_loop(Tail(components), month, base_usages, selector,
                                          IF NotNone(line_item)
                                          THEN Append(line_items, line_item)
                                          ELSE line_items)

\* Tariff.get_fee_lines_for: the list of line items, or the raised error
get_fee_lines_for(self, month, base_usages, selector) ==
    IF base_usages # <<>>
    THEN fee_lines_loop(self.components, month, base_usages, selector, <<>>)
    ELSE JList(<<>>)

\* a float that arithmetic has produced, as the exact fraction num / den
Rat(num, den) == [num |-> num, den |-> den]

RatMul(a, b) == Rat(a.num * b.num, a.den * b.den)

RatDiv(a, b) == Rat(a.num * b.den, a.den * b.num)

RatAdd(a, b) == Rat(a.num * b.den + b.num * a.den, a.den * b.den)

\* sum([u.kwh * u.spot_per_kwh for u in usages])
spot_cost(usages) ==
    Rat(SumSeq([i \in DOMAIN usages |-> usages[i].kwh * usages[i].spot_per_kwh]),
        Scale * Scale)

\* sum([u.kwh for u in usages]), a fixed-point decimal
sum_kwh(usages) == SumSeq([i \in DOMAIN usages |-> usages[i].kwh])

wholesale_loss_factor_not_inverted(self, invert_loss_factor) ==
    Rat(self.distribution_loss_factor.v * self.account_config.marginal_loss_factor,
        Scale * Scale)

\* lines 163-165: the loss factor applied to the spot cost
wholesale_loss_factor(self, invert_loss_factor) ==
    LET loss_factor ==
            Rat(self.distribution_loss_factor.v * self.account_config.marginal_loss_factor,
                Scale * Scale)
    IN  IF invert_loss_factor THEN RatDiv(Rat(1, 1), loss_factor) ELSE loss_factor

get_wholesales_fees_for_negating_first(self, usages, label, extra_charges, invert_loss_factor, remove_gst, negate_total) ==
    LET total_fees ==
            RatAdd(IF remove_gst
                   THEN RatDiv(RatMul(spot_cost(usages),
                                      wholesale_loss_factor(self, invert_loss_factor)),
                               Rat(11, 10))
                   ELSE RatMul(spot_cost(usages),
                               wholesale_loss_factor(self, invert_loss_factor)),
                   Rat(extra_charges, 1))
        rounded == Round(total_fees.num, total_fees.den)
        total_amount_cents == IF negate_total THEN - rounded ELSE rounded
        total_kwh == sum_kwh(usages)
    IN  LineItem(label, total_kwh,
                 IF total_kwh # 0 THEN Rat(total_amount_cents * Scale, total_kwh)
                 ELSE Rat(0, 1),
                 total_amount_cents)

\* Tariff.get_wholesales_fees_for
get_wholesales_fees_for(self, usages, label, extra_charges, invert_loss_factor, remove_gst, negate_total) ==
    LET loss_factor == wholesale_loss_factor(self, invert_loss_factor)
        fees_with_losses == RatMul(spot_cost(usages), loss_factor)
        fees_ex_gst == IF remove_gst THEN RatDiv(fees_with_losses, Rat(11, 10))
                       ELSE fees_with_losses
        total_fees == RatAdd(fees_ex_gst, Rat(extra_charges, 1))
        total_amount_cents == Round(total_fees.num, total_fees.den)
        total_kwh == sum_kwh(usages)
        per_kwh_average_cost == IF total_kwh # 0
                                THEN Rat(total_amount_cents * Scale, total_kwh)
                                ELSE Rat(0, 1)
    IN  LineItem(label, total_kwh, per_kwh_average_cost,
                 IF negate_total THEN - total_amount_cents ELSE total_amount_cents)

----------------------------------------------------------------------------
(* usage.py: fetching usage in batches; dates are proleptic ordinals *)

\* the chunk size stream_usage_data passes to chunked
BATCH_DAYS == 20

\* date_stream(from_date, to_date): the dates it yields
RECURSIVE date_stream(_, _)
date_stream(from_date, to_date) ==
    IF from_date <= to_date THEN <<from_date>> \o date_stream(from_date + 1, to_date)
    ELSE <<>>

\* the chunks items[i:i + chunk_size] for i in range(start, len(items), chunk_size)
RECURSIVE chunks_from(_, _, _)
chunks_from(items, chunk_size, start) ==
    IF start >= Len(items) THEN <<>>
    ELSE <<SubSeq(items, start + 1,
                  IF start + chunk_size < Len(items) THEN start + chunk_size ELSE Len(items))>>
         \o chunks_from(items, chunk_size, start + chunk_size)

chunked_dropping_remainder(items, chunk_size) ==
    chunks_from(SubSeq(items, 1, Len(items) - (Len(items) % chunk_size)), chunk_size, 0)

\* chunked(items, chunk_size)
chunked(items, chunk_size) == chunks_from(items, chunk_size, 0)

\* the date ranges stream_usage_data iterates over, not yet requested
usage_batches(start_date, end_date) == chunked(date_stream(start_date, end_date), BATCH_DAYS)

----------------------------------------------------------------------------
(* amber_invoice_estimate.py: its own tariff classes and line computation *)

\* read_filter: None, the filter closure, or the error raised while the
\* filter values are constructed
estimate_read_filter(component_json, filter_property_name) ==
    IF filter_property_name \in DOMAIN component_json
    THEN LET filter_text == component_json[filter_property_name]
         IN  IF filter_text.t # "list" THEN Raise("TypeError")
             ELSE LET typed == [i \in DOMAIN filter_text.v |->
                                    filter_type_constructor_and_validator(
                                        filter_property_name, filter_text.v[i])]
                      failed == {i \in DOMAIN typed : typed[i].exc # ""}
                  IN  IF failed # {}
                      THEN Raise(typed[CHOOSE i \in failed : \A j \in failed : i <= j].exc)
                      ELSE [t |-> "filter",
                            filter_name |-> filter_property_name,
                            filter_vals |-> {typed[i].val : i \in DOMAIN typed}]
    ELSE JNone

\* TariffComponent.__init__ of amber_invoice_estimate.py
estimate_TariffComponent_init(tariff_component_json) ==
    IF "amberLabel" \notin DOMAIN tariff_component_json THEN Raise("ValueError")
    ELSE LET period_filter == estimate_read_filter(tariff_component_json, "periodFilter")
             channel_type_filter ==
                 estimate_read_filter(tariff_component_json, "channelTypeFilter")
             per_kwh_price_cents == Get(tariff_component_json, "centsPerKwh")
             per_day_price_cents == Get(tariff_component_json, "centsPerDay")
         IN  IF IsExc(period_filter) THEN period_filter
             ELSE IF IsExc(channel_type_filter) THEN channel_type_filter
             ELSE IF Truthy(per_kwh_price_cents) /\ Truthy(per_day_price_cents)
             THEN Raise("ValueError")
             ELSE [t |-> "TariffComponent",
                   amber_label |-> tariff_component_json["amberLabel"],
                   period_filter |-> period_filter,
                   channel_type_filter |-> channel_type_filter,
                   greenpower_filter |->
                       IF "greenPowerFilter" \in DOMAIN tariff_component_json
                       THEN [t |-> "lambda",
                             pass_val |-> tariff_component_json["greenPowerFilter"]]
                       ELSE JNone,
                   feed_in_filter |->
                       IF "feedInFilter" \in DOMAIN tariff_component_json
                       THEN [t |-> "lambda",
                             pass_val |-> tariff_component_json["feedInFilter"]]
                       ELSE JNone,
                   per_kwh_price_cents |-> per_kwh_price_cents,
                   per_day_price_cents |-> per_day_price_cents]

\* Tariff.__init__ of amber_invoice_estimate.py
estimate_Tariff_init(tariff_json) ==
    IF tariff_json.t # "dict" THEN Raise("ValueError")
    ELSE LET components == Get(tariff_json.v, "components")
         IN  IF components.t # "list" THEN Raise("ValueError")
             ELSE LET built == [i \in DOMAIN components.v |->
                                    estimate_TariffComponent_init(components.v[i])]
                      failed == {i \in DOMAIN built : IsExc(built[i])}
                  IN  IF failed # {}
                      THEN built[CHOOSE i \in failed : \A j \in failed : i <= j]
                      ELSE [t |-> "Tariff",
                            distribution_loss_factor |->
                                IF "distributionLossFactor" \in DOMAIN tariff_json.v
                                THEN tariff_json.v["distributionLossFactor"]
                                ELSE JNum(Fx(1)),
                            components |-> built]

\* list(filter(a_filter, filtered_usages)) when the component has the filter
estimate_filter(a_filter, selected_attribute, filtered_usages) ==
    IF NotNone(a_filter)
    THEN LET keep(u) == u[selected_attribute] \in a_filter.filter_vals
         IN  SelectSeq(filtered_usages, keep)
    ELSE filtered_usages

\* create_line_for_component of amber_invoice_estimate.py: the LineItem or None
estimate_create_line_for_component(label, month, component, greenpower_active, feed_in_active, base_usages) ==
    IF /\ NotNone(component.greenpower_filter)
       /\ ~ BoolEq(greenpower_active, component.greenpower_filter.pass_val)
    THEN JNone
    ELSE IF /\ NotNone(component.feed_in_filter)
            /\ ~ BoolEq(feed_in_active, component.feed_in_filter.pass_val)
    THEN JNone
    ELSE LET filtered_usages ==
                 estimate_filter(component.channel_type_filter, "channel_type",
                                 estimate_filter(component.period_filter, "period",
                                                 base_usages))
             amount == IF Truthy(component.per_kwh_price_cents) THEN sum_kwh(filtered_usages)
                       ELSE Fx(total_days(month))
             unit_price == IF Truthy(component.per_kwh_price_cents)
                           THEN component.per_kwh_price_cents.v
                           ELSE component.per_day_price_cents.v
             total_cost_cents == Round(amount * unit_price, Scale)
         IN  IF /\ ~ Truthy(component.per_kwh_price_cents)
                /\ ~ NotNone(component.per_day_price_cents)
             THEN Raise("TypeError")
             ELSE IF total_cost_cents # 0
             THEN LineItem(label, amount, Rat(unit_price, 1), total_cost_cents)
             ELSE JNone

----------------------------------------------------------------------------
(* amber_invoice_estimate.py: main(), the invoice of one month *)

\* list(filter(lambda u: u.channel_type == channel_type, usages))
channel_usages(usages, channel_type) ==
    LET of_channel(u) == u.channel_type = channel_type
    IN  SelectSeq(usages, of_channel)

\* lines 232-242 and 245-255: the wholesale line of a channel's usage, or the
\* error raised by the division by the total kWh
estimate_wholesale_line(label, usages, tariff, marginal_loss_factor) ==
    LET total_fees ==
            RatDiv(RatMul(RatMul(spot_cost(usages),
                                 Rat(tariff.distribution_loss_factor.v, Scale)),
                          Rat(marginal_loss_factor, Scale)),
                   Rat(11, 10))
        wholesale_total_amount_cents == Round(total_fees.num, total_fees.den)
        wholesale_total_kwh == sum_kwh(usages)
    IN  IF wholesale_total_kwh = 0 THEN Raise("ZeroDivisionError")
        ELSE LineItem(JStr(label), wholesale_total_kwh,
                      Rat(wholesale_total_amount_cents * Scale, wholesale_total_kwh),
                      wholesale_total_amount_cents)

\* the loops "for component in (c for c in tariff.components if c.<price>)":
\* the line items appended, in the order of the components
component_lines(tariff, price_attribute, month, greenpower_active, feed_in_active, base_usages) ==
    LET cs == tariff.components
        line_items ==
            [i \in DOMAIN cs |->
                IF Truthy(cs[i][price_attribute])
                THEN estimate_create_line_for_component(cs[i].amber_label, month, cs[i],
                                                        greenpower_active, feed_in_active,
                                                        base_usages)
                ELSE JNone]
    IN  SelectSeq(line_items, NotNone)

usage_fees_over_all_usages(config, month, usages) ==
    LET general_usages == channel_usages(usages, "GENERAL")
        controlled_usages == channel_usages(usages, "CONTROLLED_LOAD")
        feed_in_active == channel_usages(usages, "FEED_IN") # <<>>
        general_tariff == config.tariff_by_channel_type["general"]
        controlled_tariff == config.tariff_by_channel_type["controlledLoad"]
        general == estimate_wholesale_line("General Usage Wholesale", general_usages,
                                           general_tariff, config.marginal_loss_factor)
        controlled == estimate_wholesale_line("Controlled Load Wholesale", controlled_usages,
                                              controlled_tariff, config.marginal_loss_factor)
    IN  IF general_usages # <<>> /\ IsExc(general) THEN general
        ELSE IF controlled_usages # <<>> /\ IsExc(controlled) THEN controlled
        ELSE JList((IF general_usages # <<>> THEN <<general>> ELSE <<>>)
                   \o (IF controlled_usages # <<>> THEN <<controlled>> ELSE <<>>)
                   \o component_lines(general_tariff, "per_kwh_price_cents", month,
                                      config.green_power_active, feed_in_active, usages)
                   \o component_lines(controlled_tariff, "per_kwh_price_cents", month,
                                      config.green_power_active, feed_in_active, usages)
                   \o component_lines(config.other_charges, "per_kwh_price_cents", month,
                                      config.green_power_active, feed_in_active, usages))

\* lines 225-272: the "Usage Fees" section, or the error raised while it is built
usage_fees(config, month, usages) ==
    LET general_usages == channel_usages(usages, "GENERAL")
        controlled_usages == channel_usages(usages, "CONTROLLED_LOAD")
        non_feed_in_usages == general_usages \o controlled_usages
        feed_in_active == Len(channel_usages(usages, "FEED_IN")) # 0
        general_tariff == config.tariff_by_channel_type["general"]
        controlled_tariff == config.tariff_by_channel_type["controlledLoad"]
        general == estimate_wholesale_line("General Usage Wholesale", general_usages,
                                           general_tariff, config.marginal_loss_factor)
        controlled == estimate_wholesale_line("Controlled Load Wholesale", controlled_usages,
                                              controlled_tariff, config.marginal_loss_factor)
    IN  IF general_usages # <<>> /\ IsExc(general) THEN general
        ELSE IF controlled_usages # <<>> /\ IsExc(controlled) THEN controlled
        ELSE JList((IF general_usages # <<>> THEN <<general>> ELSE <<>>)
                   \o (IF controlled_usages # <<>> THEN <<controlled>> ELSE <<>>)
                   \o (IF general_usages # <<>>
                       THEN component_lines(general_tariff, "per_kwh_price_cents", month,
                                            config.green_power_active, feed_in_active,
                                            general_usages)
                       ELSE <<>>)
                   \o (IF controlled_usages # <<>>
                       THEN component_lines(controlled_tariff, "per_kwh_price_cents", month,
                                            config.green_power_active, feed_in_active,
                                            controlled_usages)
                       ELSE <<>>)
                   \o component_lines(config.other_charges, "per_kwh_price_cents", month,
                                      config.green_power_active, feed_in_active,
                                      non_feed_in_usages))

\* lines 274-287: the "Daily Supply Fees" section
daily_fees(config, month, usages) ==
    LET general_usages == channel_usages(usages, "GENERAL")
        controlled_usages == channel_usages(usages, "CONTROLLED_LOAD")
        feed_in_active == Len(channel_usages(usages, "FEED_IN")) # 0
    IN  (IF general_usages # <<>>
         THEN component_lines(config.tariff_by_channel_type["general"],
                              "per_day_price_cents", month, config.green_power_active,
                              feed_in_active, general_usages)
         ELSE <<>>)
        \o (IF controlled_usages # <<>>
            THEN component_lines(config.tariff_by_channel_type["controlledLoad"],
                                 "per_day_price_cents", month, config.green_power_active,
                                 feed_in_active, controlled_usages)
            ELSE <<>>)

amber_fee_cents_inc_gst(amber_fee_dollars_inc_gst) == amber_fee_dollars_inc_gst

\* line 174: round(amber_fee_dollars_inc_gst * 100 / 1.1); the fee in dollars
\* is held in hundredths of a dollar
amber_fee_cents_ex_gst(amber_fee_dollars_inc_gst) == Round(amber_fee_dollars_inc_gst * 10, 11)

\* lines 289-293: the "Amber Fees" section
amber_fees(config, month) ==
    LET days == total_days(month)
    IN  <<LineItem([t |-> "str", v |-> "Amber - $ per month",
                    dollars |-> config.amber_fee_dollars_inc_gst],
                   Fx(days), Rat(config.amber_fee_cents_ex_gst, days),
                   config.amber_fee_cents_ex_gst)>>

export_credits_without_gst(config, month, feed_in_usages) ==
    LET general_tariff == config.tariff_by_channel_type["general"]
        wholesale ==
            RatDiv(RatMul(spot_cost(feed_in_usages),
                          RatDiv(Rat(1, 1),
                                 RatMul(Rat(general_tariff.distribution_loss_factor.v, Scale),
                                        Rat(config.marginal_loss_factor, Scale)))),
                   Rat(11, 10))
        charges == component_lines(config.other_charges, "per_kwh_price_cents", month,
                                   config.green_power_active, TRUE, feed_in_usages)
        total == Round(wholesale.num, wholesale.den)
                     + SumSeq([i \in DOMAIN charges |-> charges[i].total_cost])
        kwh == sum_kwh(feed_in_usages)
    IN  IF kwh = 0 THEN Raise("ZeroDivisionError")
        ELSE JList(<<LineItem(JStr("Solar Exports"), kwh, Rat(total * Scale, kwh), - total)>>)

\* lines 296-312: the "Your Export Credits" section of a month that has
\* feed-in usage, or the error raised by the division by the total kWh
export_credits(config, month, feed_in_usages) ==
    LET general_tariff == config.tariff_by_channel_type["general"]
        export_loss_factor ==
            RatDiv(Rat(1, 1),
                   RatMul(Rat(general_tariff.distribution_loss_factor.v, Scale),
                          Rat(config.marginal_loss_factor, Scale)))
        export_wholesale == RatMul(spot_cost(feed_in_usages), export_loss_factor)
        market_charges ==
            component_lines(config.other_charges, "per_kwh_price_cents", month,
                            config.green_power_active, Len(feed_in_usages) # 0,
                            feed_in_usages)
        export_wholesale_total_amount_cents ==
            Round(export_wholesale.num, export_wholesale.den)
                + SumSeq([i \in DOMAIN market_charges |-> market_charges[i].total_cost])
        export_wholesale_total_kwh == sum_kwh(feed_in_usages)
    IN  IF export_wholesale_total_kwh = 0 THEN Raise("ZeroDivisionError")
        ELSE JList(<<LineItem(JStr("Solar Exports"), export_wholesale_total_kwh,
                              Rat(export_wholesale_total_amount_cents * Scale,
                                  export_wholesale_total_kwh),
                              - export_wholesale_total_amount_cents)>>)

\* an entry of the invoice dict, which keeps the order of insertion
Section(name, items) == [section |-> name, items |-> items]

\* lines 217-312: the body of the loop over the months; the invoice of the
\* month, or the error that ends the run
assemble_invoice(config, month, usages) ==
    LET feed_in_usages == channel_usages(usages, "FEED_IN")
        usage_fees_section == usage_fees(config, month, usages)
        export_section == export_credits(config, month, feed_in_usages)
    IN  IF IsExc(usage_fees_section) THEN usage_fees_section
        ELSE IF feed_in_usages # <<>> /\ IsExc(export_section) THEN export_section
        ELSE [t |-> "Invoice",
              sections |->
                  <<Section("Usage Fees", usage_fees_section.v),
                    Section("Daily Supply Fees", daily_fees(config, month, usages)),
                    Section("Amber Fees", amber_fees(config, month))>>
                  \o (IF feed_in_usages # <<>>
                      THEN <<Section("Your Export Credits", export_section.v)>>
                      ELSE <<>>)]

\* the sum of item.total_cost over every item of every section
sum_of_line_costs(invoice) ==
    SumSeq([i \in DOMAIN invoice.sections |->
               SumSeq([k \in DOMAIN invoice.sections[i].items |->
                          invoice.sections[i].items[k].total_cost])])

\* -invoice["Your Export Credits"][0].total_cost if the section exists else 0
solar_credits_of(invoice) ==
    LET found == {i \in DOMAIN invoice.sections :
                     invoice.sections[i].section = "Your Export Credits"}
    IN  IF found # {}
        THEN - invoice.sections[CHOOSE i \in found : TRUE].items[1].total_cost
        ELSE 0

print_invoice_gst_on_everything(month, invoice) ==
    [month |-> month,
     sections |-> invoice.sections,
     gst_cents |-> Round(sum_of_line_costs(invoice), 10),
     total_cents |-> sum_of_line_costs(invoice) + Round(sum_of_line_costs(invoice), 10)]

\* lines 315-327: what is printed for one invoice, with the GST the total includes
print_invoice(month, invoice) ==
    LET total_cents == sum_of_line_costs(invoice)
        solar_credits == solar_credits_of(invoice)
        gst_cents == Round(total_cents - solar_credits, 10)
    IN  [month |-> month,
         sections |-> invoice.sections,
         gst_cents |-> gst_cents,
         total_cents |-> total_cents + gst_cents]

----------------------------------------------------------------------------
(* Inputs *)

\* an optional key of a JSON object: absent, or present with one of the values
Opt(key, values) == {<<>>} \cup {key :> val : val \in values}

JDict(d) == [t |-> "dict", v |-> d]

\* Anzac Day is a public holiday every year
Calendar == << <<0, 4, 25>> >>

AccountConfigs ==
    {[account_timezone |-> 10, calendar |-> Calendar,
      greenpower_active |-> g, feed_in_active |-> f,
      marginal_loss_factor |-> Fx(1)] : g \in BOOLEAN, f \in BOOLEAN}

DefaultAccount == CHOOSE a \in AccountConfigs : ~ a.greenpower_active /\ ~ a.feed_in_active

\* a record of the usage API; day and hour are the UTC start of the interval and
\* the record's date is the local date of that start
Usage(id, day, hour, duration, kwh, period, channel_type) ==
    [id |-> id,
     date |-> [year |-> 2024, month |-> 4, day |-> day + ((hour + 10) \div 24)],
     start_time |-> [hour |-> hour], duration |-> duration, kwh |-> kwh,
     spot_per_kwh |-> Fx(5), period |-> period, channel_type |-> channel_type]

\* Wednesday 24 April 2024, 17:00 local time, half-hourly, 2 kWh
usage_weekday_peak == Usage(1, 24, 7, 30, Fx(2), "PEAK", "GENERAL")
\* Saturday 27 April 2024, 02:00 local time, half-hourly, 5 kWh
usage_weekend_offpeak == Usage(2, 26, 16, 30, Fx(5), "OFF_PEAK", "GENERAL")
\* Anzac Day (Thursday), 17:00 local time, 5-minute interval, 5 kWh
usage_holiday_5min == Usage(3, 25, 7, 5, Fx(5), "PEAK", "CONTROLLED_LOAD")
\* Friday 26 April 2024, 09:00 local time, 15-minute interval, half a kWh
usage_feed_in_15min == Usage(4, 25, 23, 15, Scale \div 2, "SHOULDER", "FEED_IN")

UsagePool ==
    {usage_weekday_peak, usage_weekend_offpeak, usage_holiday_5min, usage_feed_in_15min}

\* usage sequences: each metered interval occurs at most once
UsageSeqs ==
    UNION { {us \in [1..n -> UsagePool] : \A i, j \in 1..n : i # j => us[i] # us[j]}
            : n \in 0..MaxUsages }

Months ==
    {YearMonth(2023, 2), YearMonth(2024, 2), YearMonth(2100, 2), YearMonth(2024, 4),
     YearMonth(2023, 12)}

Label == Opt("amberLabel", {JStr("Peak")})

PricingKeys ==
    { a @@ b @@ c : a \in Opt("centsPerKwh", {JNum(0), JNum(30)}),
                    b \in Opt("centsPerDay", {JNum(0), JNum(100)}),
                    c \in Opt("centsPerPeakDemandKwPerDay", {JNum(0), JNum(7)}) }

OnePrice ==
    { "centsPerKwh" :> JNum(30), "centsPerDay" :> JNum(100),
      "centsPerPeakDemandKwPerDay" :> JNum(7) }

BoolForms ==
    { JBool(TRUE), JBool(FALSE), JList(<<JBool(TRUE)>>), JList(<<JBool(FALSE)>>),
      JList(<<JBool(TRUE), JBool(FALSE)>>) }

\* sources exercising the label, the pricing keys and malformed filter values
ConstructJsons ==
    { l @@ p @@ f @@ w :
        l \in Label, p \in PricingKeys,
        f \in Opt("periodFilter", {JStr("peak"), JList(<<JStr("peak")>>), JList(<<JStr("PEAK")>>)}),
        w \in Opt("monthFilter", {JNum(4), JList(<<JNum(4)>>)}) }

\* well-labelled sources exercising the four usage filters
FilterJsons ==
    { ("amberLabel" :> JStr("Peak")) @@ p @@ f @@ c @@ h @@ w :
        p \in OnePrice,
        f \in Opt("periodFilter", {JList(<<JStr("peak")>>), JList(<<JStr("peak"), JStr("offPeak")>>)}),
        c \in Opt("channelTypeFilter", {JList(<<JStr("general")>>)}),
        h \in Opt("hourFilter", {JList(<<JNum(17)>>)}),
        w \in Opt("workingWeekdayFilter", BoolForms) }

\* well-labelled sources exercising the account-level and month filters
GateJsons ==
    { ("amberLabel" :> JStr("Peak")) @@ p @@ g @@ f @@ m :
        p \in OnePrice,
        g \in Opt("greenPowerFilter", BoolForms),
        f \in Opt("feedInFilter", {JBool(TRUE), JList(<<JBool(FALSE)>>),
                                   JList(<<JBool(TRUE), JBool(FALSE)>>)}),
        m \in Opt("monthFilter", {JList(<<JNum(2)>>), JList(<<JNum(4), JNum(12)>>)}) }

TariffComponentJsons ==
    { ("amberLabel" :> JStr("Peak")) @@ ("centsPerKwh" :> JNum(30)),
      ("amberLabel" :> JStr("Supply")) @@ ("centsPerDay" :> JNum(100)),
      ("centsPerKwh" :> JNum(30)),
      ("amberLabel" :> JStr("Peak")),
      ("amberLabel" :> JStr("Peak")) @@ ("centsPerKwh" :> JNum(30)) @@ ("centsPerDay" :> JNum(100)),
      ("amberLabel" :> JStr("Peak")) @@ ("centsPerKwh" :> JNum(0)) @@ ("centsPerDay" :> JNum(100)),
      ("amberLabel" :> JStr("Peak")) @@ ("centsPerKwh" :> JNum(30)) @@ ("periodFilter" :> JStr("peak")) }

ComponentLists == UNION { [1..n -> TariffComponentJsons] : n \in 0..MaxComponents }

TariffJsons ==
    { JNone, JList(<<>>), JDict(<<>>), JDict("components" :> JStr("none")),
      JDict("components" :> JDict(<<>>)) }
    \cup { JDict(("components" :> JList(cs)) @@ d) :
             cs \in ComponentLists, d \in Opt("distributionLossFactor", {JNum(Fx(1) + 1)}) }

----------------------------------------------------------------------------
(* State machine *)

NoMonth == YearMonth(0, 0)

NoArgs == [op |-> "none"]

NoRun == [script |-> "none"]

\* the state before anything is constructed, for the accounts and the
\* estimate configurations a specification explores
InitWith(accounts, configs) ==
    /\ the_account \in accounts
    /\ the_config \in configs
    /\ the_args = NoArgs
    /\ cj = <<>>
    /\ the_component = JNone
    /\ tj = JNone
    /\ the_tariff = JNone
    /\ the_month = NoMonth
    /\ the_usages = <<>>
    /\ result = JNone
    /\ peak_log = NoUsage
    /\ run = NoRun
    /\ requests = <<>>
    /\ output = <<>>
    /\ pc = "start"

Init == InitWith(AccountConfigs, {JNone})

\* TariffComponent(tariff_component_json, account_config)
NewTariffComponent(sources) ==
    /\ pc = "start"
    /\ \E tariff_component_json \in sources :
          /\ cj' = tariff_component_json
          /\ the_component' = TariffComponent_init(tariff_component_json, the_account)
    /\ pc' = "TariffComponent"
    /\ UNCHANGED <<run, requests, output, the_args, the_config, the_account, tj, the_tariff, the_month, the_usages, result, peak_log>>

\* Tariff(tariff_json, account_config)
NewTariff(sources) ==
    /\ pc = "start"
    /\ \E tariff_json \in sources :
          /\ tj' = tariff_json
          /\ the_tariff' = Tariff_init(tariff_json, the_account)
    /\ pc' = "Tariff"
    /\ UNCHANGED <<run, requests, output, the_args, the_config, the_account, cj, the_component, the_month, the_usages, result, peak_log>>

\* a component was constructed and no operation has been applied to it yet
\* (the operations below do not change the component, so one call per run
\* reaches every result)
Constructed == pc = "TariffComponent" /\ ~ IsExc(the_component)

\* filter_usages(base_usages, component) on the constructed component
FilterUsages ==
    /\ Constructed
    /\ \E usages \in UsageSeqs :
          /\ the_usages' = usages
          /\ result' = filter_usages(usages, the_component)
    /\ the_month' = NoMonth
    /\ peak_log' = NoUsage
    /\ pc' = "filter_usages"
    /\ UNCHANGED <<run, requests, output, the_args, the_config, the_account, cj, the_component, tj, the_tariff>>

\* component.create_line_for_component(month, base_usages)
CreateLineForComponent ==
    /\ Constructed
    /\ \E month \in Months, usages \in UsageSeqs :
          LET call == create_line_for_component(the_component, month, usages)
          IN  /\ the_month' = month
              /\ the_usages' = usages
              /\ result' = call.ret
              /\ peak_log' = call.peak_demand_usage
    /\ pc' = "create_line_for_component"
    /\ UNCHANGED <<run, requests, output, the_args, the_config, the_account, cj, the_component, tj, the_tariff>>

Next == NewTariffComponent(ConstructJsons) \/ NewTariff(TariffJsons)

Spec == Init /\ [][Next]_vars

LineJsons == IF the_account = DefaultAccount THEN FilterJsons \cup GateJsons ELSE GateJsons

NextLine == NewTariffComponent(LineJsons) \/ FilterUsages \/ CreateLineForComponent

SpecLine == Init /\ [][NextLine]_vars

\* the components of the tariffs whose fee lines are listed
FeeComponentJsons ==
    { ("amberLabel" :> JStr("Peak")) @@ ("centsPerKwh" :> JNum(30))
          @@ ("periodFilter" :> JList(<<JStr("peak")>>)),
      ("amberLabel" :> JStr("Supply")) @@ ("centsPerDay" :> JNum(100)),
      ("amberLabel" :> JStr("Demand")) @@ ("centsPerPeakDemandKwPerDay" :> JNum(7))
          @@ ("channelTypeFilter" :> JList(<<JStr("general")>>)),
      ("amberLabel" :> JStr("Small")) @@ ("centsPerKwh" :> JNum(1)),
      ("amberLabel" :> JStr("Green")) @@ ("centsPerKwh" :> JNum(30))
          @@ ("greenPowerFilter" :> JBool(TRUE)) }

FeeTariffJsons ==
    { JDict("components" :> JList(cs)) :
        cs \in UNION { [1..n -> FeeComponentJsons] : n \in 0..MaxComponents } }

FeeMonths == {YearMonth(2024, 2), YearMonth(2024, 4)}

Selectors ==
    {"per_kwh_price_cents", "per_day_price_cents", "per_peak_demand_kw_per_day_price_cents",
     "all"}

\* a tariff was constructed and no operation has been applied to it yet
TariffConstructed == pc = "Tariff" /\ ~ IsExc(the_tariff)

\* tariff.get_fee_lines_for(month, base_usages, tariff_component_filter)
GetFeeLinesFor ==
    /\ TariffConstructed
    /\ \E month \in FeeMonths, usages \in UsageSeqs, selector \in Selectors :
          /\ the_month' = month
          /\ the_usages' = usages
          /\ the_args' = [op |-> "get_fee_lines_for", tariff_component_filter |-> selector]
          /\ result' = get_fee_lines_for(the_tariff, month, usages, selector)
    /\ pc' = "get_fee_lines_for"
    /\ UNCHANGED <<run, requests, output, the_config, the_account, cj, the_component, tj, the_tariff, peak_log>>

NextFees ==
    \/ NewTariffComponent(FeeComponentJsons)
    \/ CreateLineForComponent
    \/ NewTariff(FeeTariffJsons)
    \/ GetFeeLinesFor

SpecFees == Init /\ [][NextFees]_vars

\* accounts of the sites whose wholesale fees are computed: marginal loss
\* factors 1.0, a tenth below and two tenths above
WholesaleAccounts ==
    {[DefaultAccount EXCEPT !.marginal_loss_factor = m] : m \in {Fx(1), Fx(1) - 1, Fx(1) + 2}}

WholesaleTariffJsons ==
    { JDict(("components" :> JList(<<>>)) @@ d) :
        d \in Opt("distributionLossFactor", {JNum(Fx(1) + 1), JNum(Fx(1) - 2)}) }

\* Friday 26 April 2024, 09:30 local time, 10 kWh fed in
usage_feed_in_10kwh == Usage(5, 25, 23, 30, Fx(10), "SHOULDER", "FEED_IN")
\* Friday 26 April 2024, 12:00 local time, nothing consumed
usage_zero_kwh == Usage(6, 26, 2, 30, 0, "OFF_PEAK", "GENERAL")
\* Friday 26 April 2024, 13:00 local time, 3.3 kWh at a negative spot price
usage_negative_spot ==
    [Usage(7, 26, 3, 30, Fx(3) + 3, "OFF_PEAK", "GENERAL") EXCEPT !.spot_per_kwh = - (Fx(2) + 1)]

WholesaleUsagePool ==
    {usage_feed_in_10kwh, usage_zero_kwh, usage_negative_spot, usage_weekday_peak,
     usage_feed_in_15min}

WholesaleUsageSeqs ==
    UNION { {us \in [1..n -> WholesaleUsagePool] : \A i, j \in 1..n : i # j => us[i] # us[j]}
            : n \in 0..MaxUsages }

ExtraCharges == {0, 7}

\* tariff.get_wholesales_fees_for(usages, label, extra_charges, invert_loss_factor,
\*                                remove_gst, negate_total)
GetWholesalesFeesFor ==
    /\ TariffConstructed
    /\ \E usages \in WholesaleUsageSeqs, extra_charges \in ExtraCharges,
          invert_loss_factor \in BOOLEAN, remove_gst \in BOOLEAN, negate_total \in BOOLEAN :
          /\ the_usages' = usages
          /\ the_args' = [op |-> "get_wholesales_fees_for", label |-> "Wholesale",
                          extra_charges |-> extra_charges,
                          invert_loss_factor |-> invert_loss_factor,
                          remove_gst |-> remove_gst, negate_total |-> negate_total]
          /\ result' = get_wholesales_fees_for(the_tariff, usages, "Wholesale", extra_charges,
                                               invert_loss_factor, remove_gst, negate_total)
    /\ pc' = "get_wholesales_fees_for"
    /\ UNCHANGED <<run, requests, output, the_config, the_account, cj, the_component, tj, the_tariff, the_month,
                   peak_log>>

NextWholesale == NewTariff(WholesaleTariffJsons) \/ GetWholesalesFeesFor

SpecWholesale == InitWith(WholesaleAccounts, {JNone}) /\ [][NextWholesale]_vars

\* the tariff of the general channel, with a peak-demand component that
\* amber_invoice_estimate.py does not read
GeneralTariffComponents ==
    <<("amberLabel" :> JStr("Peak")) @@ ("centsPerKwh" :> JNum(30))
          @@ ("periodFilter" :> JList(<<JStr("peak")>>)),
      ("amberLabel" :> JStr("Supply")) @@ ("centsPerDay" :> JNum(100)),
      ("amberLabel" :> JStr("Demand")) @@ ("centsPerPeakDemandKwPerDay" :> JNum(7))>>

GeneralTariffJsons ==
    { JDict(("components" :> JList(GeneralTariffComponents)) @@ d) :
        d \in Opt("distributionLossFactor", {JNum(Fx(1) + 1)}) }
    \cup { JDict("components" :> JList(SubSeq(GeneralTariffComponents, 1, 2))) }

ControlledTariffJsons ==
    { JDict(("components" :>
                JList(<<("amberLabel" :> JStr("Controlled")) @@ ("centsPerKwh" :> JNum(20)),
                        ("amberLabel" :> JStr("Controlled Supply"))
                            @@ ("centsPerDay" :> JNum(10))>>))
            @@ ("distributionLossFactor" :> JNum(Fx(1) - 1))) }

OtherChargesJsons ==
    { JDict("components" :> JList(<<>>)),
      JDict("components" :>
                JList(<<("amberLabel" :> JStr("Market")) @@ ("centsPerKwh" :> JNum(1)),
                        ("amberLabel" :> JStr("Export Market")) @@ ("centsPerKwh" :> JNum(2))
                            @@ ("channelTypeFilter" :> JList(<<JStr("feedIn")>>)),
                        ("amberLabel" :> JStr("Carbon Offset")) @@ ("centsPerKwh" :> JNum(3))
                            @@ ("greenPowerFilter" :> JBool(TRUE)),
                        ("amberLabel" :> JStr("Solar Meter")) @@ ("centsPerKwh" :> JNum(4))
                            @@ ("feedInFilter" :> JBool(TRUE))>>)) }

\* monthly fees of 11 and 15 dollars, in hundredths of a dollar
AmberFees == {1100, 1500}

\* lines 150-205: what main() holds once the account config and its tariff
\* files have been loaded
EstimateConfig(green_power_active, marginal_loss_factor, amber_fee_dollars_inc_gst, general_json, controlled_json, other_charges_json) ==
    [t |-> "config",
     green_power_active |-> green_power_active,
     marginal_loss_factor |-> marginal_loss_factor,
     amber_fee_dollars_inc_gst |-> amber_fee_dollars_inc_gst,
     amber_fee_cents_ex_gst |-> amber_fee_cents_ex_gst(amber_fee_dollars_inc_gst),
     tariff_files |-> ("general" :> general_json) @@ ("controlledLoad" :> controlled_json),
     other_charges_file |-> other_charges_json,
     tariff_by_channel_type |->
         ("general" :> estimate_Tariff_init(general_json))
             @@ ("controlledLoad" :> estimate_Tariff_init(controlled_json)),
     other_charges |-> estimate_Tariff_init(other_charges_json)]

EstimateConfigs ==
    { EstimateConfig(g, m, f, gj, cj_, oj) :
        g \in BOOLEAN, m \in {Fx(1), Fx(1) - 1}, f \in AmberFees,
        gj \in GeneralTariffJsons, cj_ \in ControlledTariffJsons, oj \in OtherChargesJsons }

\* a fed-in interval that exported nothing
usage_feed_in_zero_kwh == Usage(8, 26, 4, 30, 0, "SHOULDER", "FEED_IN")

InvoiceUsagePool ==
    {usage_weekday_peak, usage_zero_kwh, usage_negative_spot, usage_holiday_5min,
     usage_feed_in_15min, usage_feed_in_10kwh, usage_feed_in_zero_kwh}

\* what stream_usage_data yields for a month: records of that month, each
\* metered interval at most once
FetchedUsages(month) ==
    LET in_month(u) == [u EXCEPT !.date = [@ EXCEPT !.year = month.year,
                                                     !.month = month.month]]
    IN  UNION { {[i \in 1..n |-> in_month(us[i])] :
                    us \in {x \in [1..n -> InvoiceUsagePool] :
                               \A i, j \in 1..n : i # j => x[i] # x[j]}}
                : n \in 0..MaxFetched }

InvoiceMonths == {YearMonth(2024, 2), YearMonth(2024, 4)}

\* one pass of the loop over the months of main()
AssembleInvoice ==
    /\ pc = "start"
    /\ \E month \in InvoiceMonths :
          \E usages \in FetchedUsages(month) :
              /\ the_month' = month
              /\ the_usages' = usages
              /\ result' = assemble_invoice(the_config, month, usages)
    /\ pc' = "invoice"
    /\ UNCHANGED <<run, requests, output, the_args, the_config, the_account, cj, the_component, tj, the_tariff,
                   peak_log>>

\* lines 314-327 for the month's invoice
PrintAssembled ==
    /\ pc = "invoice"
    /\ ~ IsExc(result)
    /\ output' = Append(output, print_invoice(the_month, result))
    /\ pc' = "printed"
    /\ UNCHANGED <<run, requests, the_args, the_config, the_account, cj, the_component, tj,
                   the_tariff, the_month, the_usages, result, peak_log>>

NextInvoice == AssembleInvoice \/ PrintAssembled

\* a usage record of the API with its date, channel identifier and cost
DatedUsage(id, year, mon, day, kwh, channel_type, channel_id, cost, duration) ==
    [Usage(id, day, 0, duration, kwh, "PEAK", channel_type)
         EXCEPT !.date = [year |-> year, month |-> mon, day |-> day]]
        @@ [channelIdentifier |-> channel_id, cost |-> cost]

\* what the site has metered: general usage on E1, feed-in on B1, controlled
\* load on E2
MeteredUsage ==
    { DatedUsage(11, 2024, 1, 30, Fx(2), "GENERAL", "E1", Fx(40), 30),
      DatedUsage(12, 2024, 1, 30, Fx(3), "FEED_IN", "B1", - Fx(15), 30),
      DatedUsage(13, 2024, 2, 1, Fx(1), "FEED_IN", "B1", - Fx(5), 30),
      DatedUsage(14, 2024, 2, 1, Fx(4), "FEED_IN", "B1", - Fx(20), 5),
      DatedUsage(15, 2024, 2, 1, Fx(5), "CONTROLLED_LOAD", "E2", Fx(50), 30),
      DatedUsage(16, 2024, 2, 25, Fx(6), "FEED_IN", "B1", - Fx(30), 30),
      DatedUsage(17, 2024, 2, 25, 0, "GENERAL", "E1", 0, 30),
      DatedUsage(18, 2023, 12, 5, Fx(7), "GENERAL", "E1", Fx(70), 30),
      DatedUsage(19, 2023, 12, 25, Fx(2), "FEED_IN", "B1", - Fx(10), 30) }

date_ordinal(dt) == toordinal(dt.year, dt.month, dt.day)

\* what client.get_usage may return for a date range: up to MaxBatch of the
\* records metered in the range, each at most once
Responses(batch_start, batch_end) ==
    LET in_range == {u \in MeteredUsage : /\ batch_start <= date_ordinal(u.date)
                                           /\ date_ordinal(u.date) <= batch_end}
    IN  UNION { {us \in [1..n -> in_range] : \A i, j \in 1..n : i # j => us[i] # us[j]}
                : n \in 0..MaxBatch }

\* the generator is suspended in stream_usage_data
Streaming == pc = "stream_usage_data" /\ run.batches # <<>>

\* one pass of the loop of stream_usage_data: client.get_usage answers and its
\* records are yielded
GetUsage ==
    /\ Streaming
    /\ LET date_range == Head(run.batches)
           batch_start == date_range[1]
           batch_end == date_range[Len(date_range)]
       IN  \E usage_records \in Responses(batch_start, batch_end) :
               /\ requests' = Append(requests, [batch_start |-> batch_start,
                                                batch_end |-> batch_end,
                                                response |-> JList(usage_records)])
               /\ run' = [run EXCEPT !.batches = Tail(@), !.yielded = @ \o usage_records]
    /\ UNCHANGED <<output, the_args, the_config, the_account, cj, the_component, tj,
                   the_tariff, the_month, the_usages, result, peak_log, pc>>

GetUsageFailureSwallowed ==
    /\ Streaming
    /\ LET date_range == Head(run.batches)
       IN  requests' = Append(requests, [batch_start |-> date_range[1],
                                        batch_end |-> date_range[Len(date_range)],
                                        response |-> Raise("ApiException")])
    /\ run' = [run EXCEPT !.batches = Tail(@)]
    /\ UNCHANGED <<output, the_args, the_config, the_account, cj, the_component, tj,
                   the_tariff, the_month, the_usages, result, peak_log, pc>>

\* client.get_usage raises ApiException: stream_usage_data raises RuntimeError,
\* which no caller catches before the script's top level
GetUsageFails ==
    /\ Streaming
    /\ LET date_range == Head(run.batches)
       IN  requests' = Append(requests, [batch_start |-> date_range[1],
                                        batch_end |-> date_range[Len(date_range)],
                                        response |-> Raise("ApiException")])
    /\ result' = Raise("RuntimeError")
    /\ pc' = "failed"
    /\ UNCHANGED <<run, output, the_args, the_config, the_account, cj, the_component, tj,
                   the_tariff, the_month, the_usages, peak_log>>

\* 1 February 2024
StreamEpoch == toordinal(2024, 2, 1)

\* list(stream_usage_data(client, site_id, start_date, end_date)) is called
StreamUsageData ==
    /\ pc = "start"
    /\ \E start_date \in (StreamEpoch - 2)..StreamEpoch,
          end_date \in (StreamEpoch - 4)..(StreamEpoch - 3 + MaxSpan) :
          run' = [script |-> "stream_usage_data",
                  start_date |-> start_date, end_date |-> end_date,
                  batches |-> usage_batches(start_date, end_date),
                  yielded |-> <<>>]
    /\ pc' = "stream_usage_data"
    /\ UNCHANGED <<requests, output, the_args, the_config, the_account, cj, the_component,
                   tj, the_tariff, the_month, the_usages, result, peak_log>>

NextStream == StreamUsageData \/ GetUsage \/ GetUsageFails

SpecStream == InitWith({DefaultAccount}, {JNone}) /\ [][NextStream]_vars

\* list.insert of sorted(): x goes before the first item it is less than
RECURSIVE insert_sorted(_, _)
insert_sorted(done, x) ==
    IF done = <<>> THEN <<x>>
    ELSE IF YearMonth_lt(x, Head(done)) THEN <<x>> \o done
    ELSE <<Head(done)>> \o insert_sorted(Tail(done), x)

sorted_as_given(items) == items

\* sorted(args.months): a stable sort by YearMonth.__lt__
RECURSIVE sorted(_)
sorted(items) ==
    IF items = <<>> THEN <<>>
    ELSE insert_sorted(sorted(SubSeq(items, 1, Len(items) - 1)), items[Len(items)])

\* invoices[month] = invoice on a dict: an equal key keeps its position
dict_set(invoices, month, invoice) ==
    IF \E i \in 1..Len(invoices) : YearMonth_eq(invoices[i].month, month)
        THEN [i \in 1..Len(invoices) |->
                 IF YearMonth_eq(invoices[i].month, month)
                     THEN [month |-> month, invoice |-> invoice]
                     ELSE invoices[i]]
        ELSE Append(invoices, [month |-> month, invoice |-> invoice])

RunMonths == {YearMonth(2023, 12), YearMonth(2024, 2)}

\* the months given on the command line, in any order, possibly repeated
RequestedMonths == UNION { [1..n -> RunMonths] : n \in 1..MaxMonths }

RunConfigs ==
    { c \in EstimateConfigs : /\ c.amber_fee_dollars_inc_gst = 1100
                              /\ c.marginal_loss_factor = Fx(1)
                              /\ ~ c.green_power_active }

InvoiceRun == run.script = "amber_invoice_estimate"

\* the days on which the script is run
RunDates == {[year |-> 2024, month |-> 3, day |-> 15], [year |-> 2024, month |-> 3, day |-> 31]}

\* lines 136-214: the default of the months argument is computed from today's
\* date, the arguments are parsed, the months sorted, the client and the empty
\* invoices dict created
StartRun ==
    /\ pc = "start"
    /\ \E months \in RequestedMonths, today \in RunDates :
          LET default_months == last_year_month(today)
          IN  /\ run' = [script |-> "amber_invoice_estimate",
                         today |-> today,
                         args_months |-> months,
                         months |-> IF IsExc(default_months) THEN <<>> ELSE sorted(months),
                         invoices |-> <<>>,
                         batches |-> <<>>,
                         yielded |-> <<>>]
              /\ result' = IF IsExc(default_months) THEN default_months ELSE result
              /\ pc' = IF IsExc(default_months) THEN "failed" ELSE "next_month"
    /\ UNCHANGED <<requests, output, the_args, the_config, the_account, cj, the_component,
                   tj, the_tariff, the_month, the_usages, peak_log>>

\* lines 216-218: the loop takes the next month and starts streaming its usage
BeginMonth ==
    /\ pc = "next_month"
    /\ InvoiceRun
    /\ run.months # <<>>
    /\ LET month == Head(run.months)
       IN  /\ the_month' = month
           /\ run' = [run EXCEPT !.batches = usage_batches(first_date(month), last_date(month)),
                                 !.yielded = <<>>]
    /\ pc' = "stream_usage_data"
    /\ UNCHANGED <<requests, output, the_args, the_config, the_account, cj, the_component,
                   tj, the_tariff, the_usages, result, peak_log>>

\* lines 218-312: the stream is exhausted and the month's invoice is assembled
\* into invoices[month]; an exception leaves main()
AssembleMonth ==
    /\ pc = "stream_usage_data"
    /\ InvoiceRun
    /\ run.batches = <<>>
    /\ the_usages' = run.yielded
    /\ LET invoice == assemble_invoice(the_config, the_month, run.yielded)
       IN  IF IsExc(invoice)
               THEN /\ result' = invoice
                    /\ pc' = "failed"
                    /\ run' = run
               ELSE /\ result' = invoice
                    /\ pc' = "next_month"
                    /\ run' = [run EXCEPT !.months = Tail(@),
                                          !.invoices = dict_set(@, the_month, invoice)]
    /\ UNCHANGED <<requests, output, the_args, the_config, the_account, cj, the_component,
                   tj, the_tariff, the_month, peak_log>>

\* lines 314-327: one pass of the printing loop, entered once every month has
\* its invoice
PrintInvoice ==
    /\ pc = "next_month"
    /\ InvoiceRun
    /\ run.months = <<>>
    /\ Len(output) < Len(run.invoices)
    /\ LET item == run.invoices[Len(output) + 1]
       IN  output' = Append(output, print_invoice(item.month, item.invoice))
    /\ UNCHANGED <<run, requests, the_args, the_config, the_account, cj, the_component, tj,
                   the_tariff, the_month, the_usages, result, peak_log, pc>>

NextRun == StartRun \/ BeginMonth \/ GetUsage \/ GetUsageFails \/ AssembleMonth \/ PrintInvoice

SpecRun == InitWith({DefaultAccount}, RunConfigs) /\ [][NextRun]_vars

\* every date of two years, one of them a leap year
Today ==
    { [year |-> y, month |-> m, day |-> d] :
        y \in {2023, 2024}, m \in 1..12, d \in 1..31 } \ 
    { dt \in [year : {2023, 2024}, month : 1..12, day : 29..31] :
        dt.day > days_in_month(dt.year, dt.month) }

\* line 136 of main(): default=[last_year_month()] on the day the script runs
DefaultMonths ==
    /\ pc = "start"
    /\ \E today \in Today :
          /\ run' = [script |-> "last_year_month", today |-> today]
          /\ result' = last_year_month(today)
    /\ pc' = "last_year_month"
    /\ UNCHANGED <<requests, output, the_args, the_config, the_account, cj, the_component,
                   tj, the_tariff, the_month, the_usages, peak_log>>

NextToday == DefaultMonths

SpecToday == InitWith({DefaultAccount}, {JNone}) /\ [][NextToday]_vars

----------------------------------------------------------------------------
(* amber_usage_summary.py; a dict is the sequence of its items in insertion
   order *)

\* UsageSummary.__init__
UsageSummary_init(initial_record) ==
    [summary_date |-> initial_record.date,
     channel_id |-> initial_record.channelIdentifier,
     channel_type |-> initial_record.channel_type,
     consumption_kwh |-> 0,
     cost_cents |-> 0]

\* UsageSummary.update
UsageSummary_update(self, record) ==
    [self EXCEPT !.consumption_kwh = @ + record.kwh, !.cost_cents = @ + record.cost]

\* the positions of a key in a dict
dict_find(d, key) == {i \in 1..Len(d) : d[i].key = key}

\* the body of the loop of get_usage_summary for one record; a UsageSummary
\* object is truthy
usage_summary_step(summaries, record) ==
    LET key == <<record.date, record.channelIdentifier>>
        found == dict_find(summaries, key)
    IN  IF found = {}
            THEN Append(summaries, [key |-> key, value |-> UsageSummary_init(record)])
            ELSE LET i == CHOOSE k \in found : TRUE
                 IN  [summaries EXCEPT ![i].value = UsageSummary_update(@, record)]

\* get_usage_summary over the records the stream yields
RECURSIVE get_usage_summary(_)
get_usage_summary(records) ==
    IF records = <<>> THEN <<>>
    ELSE usage_summary_step(get_usage_summary(SubSeq(records, 1, Len(records) - 1)),
                            records[Len(records)])

SummaryStarts == {toordinal(2024, 1, 21), toordinal(2024, 2, 1)}
SummaryEnds == {toordinal(2024, 2, 9), toordinal(2024, 2, 29)}

\* get_usage_summary(client, site_id, start_date, end_date) is called
StartUsageSummary ==
    /\ pc = "start"
    /\ \E start_date \in SummaryStarts, end_date \in SummaryEnds :
          run' = [script |-> "amber_usage_summary",
                  start_date |-> start_date, end_date |-> end_date,
                  batches |-> usage_batches(start_date, end_date),
                  yielded |-> <<>>]
    /\ pc' = "stream_usage_data"
    /\ UNCHANGED <<requests, output, the_args, the_config, the_account, cj, the_component,
                   tj, the_tariff, the_month, the_usages, result, peak_log>>

\* the stream is exhausted and get_usage_summary returns its dict
ReturnUsageSummary ==
    /\ pc = "stream_usage_data"
    /\ run.script = "amber_usage_summary"
    /\ run.batches = <<>>
    /\ result' = JList(get_usage_summary(run.yielded))
    /\ pc' = "returned"
    /\ UNCHANGED <<run, requests, output, the_args, the_config, the_account, cj,
                   the_component, tj, the_tariff, the_month, the_usages, peak_log>>

----------------------------------------------------------------------------
(* amber_solar_export_summary.py *)

\* max(a, b) of two fractions with positive denominators
RatMax(a, b) == IF b.num * a.den > a.num * b.den THEN b ELSE a

\* SolarExportDailySummary.__init__
SolarExportDailySummary_init(summary_date) ==
    [summary_date |-> summary_date,
     peak_period_kw |-> Rat(0, 1),
     total_kwh |-> 0,
     total_income_cents |-> 0]

\* SolarExportDailySummary.update; kwh is a fixed-point decimal, kW a fraction
SolarExportDailySummary_update(self, record) ==
    LET kw_in_record == RatMul(Rat(record.kwh, Scale), Rat(60, record.duration))
    IN  [self EXCEPT !.peak_period_kw = RatMax(@, kw_in_record),
                     !.total_kwh = @ + record.kwh,
                     !.total_income_cents = @ + (- record.cost)]

\* the body of the loop of get_solar_export_daily_summaries for one record
daily_summary_step(summaries, record) ==
    IF record.channel_type = "FEED_IN"
        THEN LET found == dict_find(summaries, record.date)
                 with_day == IF found = {}
                                 THEN Append(summaries,
                                             [key |-> record.date,
                                              value |-> SolarExportDailySummary_init(record.date)])
                                 ELSE summaries
                 i == CHOOSE k \in dict_find(with_day, record.date) : TRUE
             IN  [with_day EXCEPT ![i].value = SolarExportDailySummary_update(@, record)]
        ELSE summaries

\* get_solar_export_daily_summaries over the records the stream yields
RECURSIVE get_solar_export_daily_summaries(_)
get_solar_export_daily_summaries(records) ==
    IF records = <<>> THEN <<>>
    ELSE daily_summary_step(
             get_solar_export_daily_summaries(SubSeq(records, 1, Len(records) - 1)),
             records[Len(records)])

\* SolarExportMonthlySummary.__init__
SolarExportMonthlySummary_init(summary_year_month) ==
    [year_month |-> summary_year_month,
     total_kwh |-> 0,
     total_income_cents |-> 0,
     average_daily_kwh |-> Rat(0, 1),
     peak_daily_kwh |-> 0,
     peak_period_kw |-> Rat(0, 1),
     days_covered |-> 0]

\* SolarExportMonthlySummary.update
SolarExportMonthlySummary_update(self, daily_summary) ==
    LET day_kwh == daily_summary.total_kwh
        new_average == RatDiv(RatAdd(RatMul(self.average_daily_kwh, Rat(self.days_covered, 1)),
                                     Rat(day_kwh, 1)),
                              Rat(self.days_covered + 1, 1))
    IN  [self EXCEPT !.total_kwh = @ + daily_summary.total_kwh,
                     !.total_income_cents = @ + daily_summary.total_income_cents,
                     !.peak_daily_kwh = IF day_kwh > @ THEN day_kwh ELSE @,
                     !.average_daily_kwh = new_average,
                     !.days_covered = @ + 1,
                     !.peak_period_kw = RatMax(@, daily_summary.peak_period_kw)]

\* the body of the loop of get_solar_export_monthly_summary for one daily
\* summary; a SolarExportMonthlySummary object is truthy
monthly_summary_step(summaries, daily_summary) ==
    LET summary_year_month == YearMonth(daily_summary.summary_date.year,
                                        daily_summary.summary_date.month)
        found == dict_find(summaries, summary_year_month)
    IN  IF found = {}
            THEN Append(summaries, [key |-> summary_year_month,
                                    value |-> SolarExportMonthlySummary_init(summary_year_month)])
            ELSE LET i == CHOOSE k \in found : TRUE
                 IN  [summaries EXCEPT ![i].value =
                                           SolarExportMonthlySummary_update(@, daily_summary)]

\* the loop of get_solar_export_monthly_summary over the dict's values
RECURSIVE monthly_summaries_of(_)
monthly_summaries_of(daily_summaries) ==
    IF daily_summaries = <<>> THEN <<>>
    ELSE monthly_summary_step(
             monthly_summaries_of(SubSeq(daily_summaries, 1, Len(daily_summaries) - 1)),
             daily_summaries[Len(daily_summaries)].value)

\* get_solar_export_monthly_summary over the records the stream yields
get_solar_export_monthly_summary(records) ==
    monthly_summaries_of(get_solar_export_daily_summaries(records))

SummaryMonths == {YearMonth(2024, 1), YearMonth(2024, 2)}

\* get_solar_export_monthly_summary(client, site_id, start_month, end_month)
\* is called
StartSolarSummary ==
    /\ pc = "start"
    /\ \E start_month \in SummaryMonths, end_month \in SummaryMonths :
          run' = [script |-> "amber_solar_export_summary",
                  start_date |-> first_date(start_month), end_date |-> last_date(end_month),
                  batches |-> usage_batches(first_date(start_month), last_date(end_month)),
                  yielded |-> <<>>]
    /\ pc' = "stream_usage_data"
    /\ UNCHANGED <<requests, output, the_args, the_config, the_account, cj, the_component,
                   tj, the_tariff, the_month, the_usages, result, peak_log>>

\* the stream is exhausted and get_solar_export_monthly_summary returns its
\* dict
ReturnSolarSummary ==
    /\ pc = "stream_usage_data"
    /\ run.script = "amber_solar_export_summary"
    /\ run.batches = <<>>
    /\ result' = JList(get_solar_export_monthly_summary(run.yielded))
    /\ pc' = "returned"
    /\ UNCHANGED <<run, requests, output, the_args, the_config, the_account, cj,
                   the_component, tj, the_tariff, the_month, the_usages, peak_log>>

NextSummary == StartUsageSummary \/ StartSolarSummary \/ GetUsage \/ GetUsageFails \/ ReturnUsageSummary \/ ReturnSolarSummary

SpecSummary == InitWith({DefaultAccount}, {JNone}) /\ [][NextSummary]_vars

SpecInvoice == InitWith({DefaultAccount}, EstimateConfigs) /\ [][NextInvoice]_vars

----------------------------------------------------------------------------
(* Readings of a declarative source, used to state the properties *)

PriceKeys == {"centsPerKwh", "centsPerDay", "centsPerPeakDemandKwPerDay"}

UsageFilterKeys == {"periodFilter", "channelTypeFilter", "hourFilter", "workingWeekdayFilter"}

GateKeys == {"greenPowerFilter", "feedInFilter", "monthFilter"}

\* the membership set a boolean-valued filter source stands for
BoolSet(val) == IF val.t = "bool" THEN {val.v} ELSE {val.v[i].v : i \in DOMAIN val.v}

\* a usage record passes every usage filter declared in the source cj
Passes(usage) ==
    /\ "periodFilter" \in DOMAIN cj =>
           usage.period \in {PeriodType_from_str(x).val : x \in Range(cj["periodFilter"].v)}
    /\ "channelTypeFilter" \in DOMAIN cj =>
           usage.channel_type
               \in {ChannelType_from_str(x).val : x \in Range(cj["channelTypeFilter"].v)}
    /\ "hourFilter" \in DOMAIN cj =>
           (usage.start_time.hour + the_account.account_timezone) % 24
               \in {x.v : x \in Range(cj["hourFilter"].v)}
    /\ "workingWeekdayFilter" \in DOMAIN cj =>
           is_working_weekday(the_account.calendar, usage.date)
               \in BoolSet(cj["workingWeekdayFilter"])

PassingUsages == SelectSeq(the_usages, Passes)

PassingKwh == SumSeq([i \in DOMAIN PassingUsages |-> PassingUsages[i].kwh])

GreenpowerFails ==
    /\ "greenPowerFilter" \in DOMAIN cj
    /\ the_account.greenpower_active \notin BoolSet(cj["greenPowerFilter"])

FeedInFails ==
    /\ "feedInFilter" \in DOMAIN cj
    /\ the_account.feed_in_active \notin BoolSet(cj["feedInFilter"])

MonthFails ==
    /\ "monthFilter" \in DOMAIN cj
    /\ the_month.month \notin {x.v : x \in Range(cj["monthFilter"].v)}

IsPerDay == Truthy(Get(cj, "centsPerDay"))

IsPerKwh == ~ IsPerDay /\ Truthy(Get(cj, "centsPerKwh"))

IsPerPeak == ~ IsPerDay /\ ~ IsPerKwh /\ Truthy(Get(cj, "centsPerPeakDemandKwPerDay"))

\* days of a calendar month by the Gregorian rule
DaysInMonth(ym) ==
    CASE ym.month \in {4, 6, 9, 11} -> 30
      [] ym.month = 2 ->
             IF (ym.year % 4 = 0 /\ ym.year % 100 # 0) \/ ym.year % 400 = 0 THEN 29 ELSE 28
      [] OTHER -> 31

IsLine(x) == ~ IsExc(x) /\ x.t = "LineItem"

ComponentsListed == tj.t = "dict" /\ Get(tj.v, "components").t = "list"

\* the line the same call returns for a component built from another source
LineOf(json) ==
    create_line_for_component(TariffComponent_init(json, the_account),
                              the_month, the_usages).ret

----------------------------------------------------------------------------
(* Properties of construction (checked under Spec) *)

\* C1: constructing a TariffComponent succeeds if and only if exactly one of
\* the keys centsPerKwh, centsPerDay, centsPerPeakDemandKwPerDay is present in
\* its source, whatever their values (0 included); stated for sources that
\* have the label and no filter keys.
C1_ExactlyOnePricingKey ==
    (/\ pc = "TariffComponent"
     /\ "amberLabel" \in DOMAIN cj
     /\ DOMAIN cj \subseteq {"amberLabel"} \cup PriceKeys)
    => (~ IsExc(the_component) <=> Cardinality(DOMAIN cj \cap PriceKeys) = 1)

\* a component source the construction contract calls malformed
Malformed(json) ==
    \/ "amberLabel" \notin DOMAIN json
    \/ Cardinality(DOMAIN json \cap PriceKeys) # 1
    \/ \E key \in DOMAIN json \cap UsageFilterKeys : json[key].t \notin {"list", "bool"}

\* C2: if any component of the components list is malformed (no amberLabel,
\* zero or several pricing fields, a non-list filter value), constructing the
\* Tariff fails and no Tariff is produced.
C2_AllOrNothing ==
    (/\ pc = "Tariff"
     /\ ComponentsListed
     /\ \E i \in DOMAIN tj.v["components"].v : Malformed(tj.v["components"].v[i]))
    => IsExc(the_tariff)

\* C3 (as claimed): every constructed Tariff has a non-empty sequence of
\* components, and construction fails when the source has no components list.
C3_NonEmptyComponents ==
    pc = "Tariff" =>
        /\ ~ ComponentsListed => IsExc(the_tariff)
        /\ ~ IsExc(the_tariff) => Len(the_tariff.components) > 0

\* C3 (amended): construction fails when the source has no components list
\* (not an object, key absent, or value not a list); every constructed Tariff
\* has one component per entry of that list, in the list's order, so its
\* sequence is empty exactly when the list is empty.
C3_ComponentsFollowList ==
    pc = "Tariff" =>
        /\ ~ ComponentsListed => IsExc(the_tariff)
        /\ ~ IsExc(the_tariff) =>
               LET listed == tj.v["components"].v
               IN  /\ Len(the_tariff.components) = Len(listed)
                   /\ \A i \in DOMAIN listed :
                          the_tariff.components[i].amber_label = listed[i]["amberLabel"]

C3_Witness ==
    /\ pc = "Tariff"
    /\ ~ IsExc(the_tariff)
    /\ Len(the_tariff.components) = 2
    /\ the_tariff.components[1].amber_label # the_tariff.components[2].amber_label

----------------------------------------------------------------------------
(* Properties of filtering and pricing (checked under SpecLine) *)

\* C4: filter_usages returns exactly the records that pass every usage filter
\* declared in the source, in their original order; a component with no usage
\* filter key keeps every record.
C4_FilterUsages ==
    pc = "filter_usages" =>
        /\ result = PassingUsages
        /\ DOMAIN cj \cap UsageFilterKeys = {} => result = the_usages

C4_Witness ==
    /\ pc = "filter_usages"
    /\ Cardinality(DOMAIN cj \cap UsageFilterKeys) >= 2
    /\ Len(the_usages) = 2
    /\ result = <<the_usages[2]>>

\* C5: for workingWeekdayFilter, greenPowerFilter and feedInFilter, declaring
\* the one-element list [b] gives the same line as declaring the boolean b,
\* and declaring [true, false] gives the same line as not declaring the filter.
C5_BooleanForms ==
    pc = "create_line_for_component" =>
        \A key \in DOMAIN cj \cap {"workingWeekdayFilter", "greenPowerFilter", "feedInFilter"} :
            /\ (cj[key].t = "list" /\ Len(cj[key].v) = 1) =>
                   result = LineOf([k \in DOMAIN cj |-> IF k = key THEN cj[k].v[1] ELSE cj[k]])
            /\ (cj[key].t = "list" /\ BoolSet(cj[key]) = BOOLEAN) =>
                   result = LineOf([k \in DOMAIN cj \ {key} |-> cj[k]])

\* C6: no line item is returned when a declared greenpower filter is failed by
\* the account's greenpower flag, a declared feed-in filter by its feed-in
\* flag, or a declared month filter by the invoice month; a component that
\* declares none of the three returns no line only when its total is zero.
C6_Suppression ==
    pc = "create_line_for_component" =>
        /\ (GreenpowerFails \/ FeedInFails \/ MonthFails) => result = JNone
        /\ (DOMAIN cj \cap GateKeys = {} /\ result = JNone) =>
               /\ IsPerKwh
               /\ Round(PassingKwh * Fx(cj["centsPerKwh"].v), Scale * Scale) = 0

C6_Witness ==
    /\ pc = "create_line_for_component"
    /\ MonthFails
    /\ "greenPowerFilter" \in DOMAIN cj
    /\ ~ GreenpowerFails
    /\ ~ FeedInFails
    /\ IsPerDay
    /\ result = JNone

\* C7: a PerDay component never raises, and whenever it returns a line item
\* (it does unless a filter of C6 suppresses it) the quantity is the number of
\* calendar days of the month and the unit price the configured cents per day,
\* whatever the usage sequence and the usage filters.
C7_PerDay ==
    (pc = "create_line_for_component" /\ IsPerDay) =>
        /\ ~ IsExc(result)
        /\ ~ suppressed_by_filters(the_component, the_month) => IsLine(result)
        /\ IsLine(result) =>
               /\ result.amount_used = Fx(DaysInMonth(the_month))
               /\ result.unit_price = Fx(cj["centsPerDay"].v)
               /\ result.total_cost = DaysInMonth(the_month) * cj["centsPerDay"].v

C7_Witness ==
    /\ pc = "create_line_for_component"
    /\ IsPerDay
    /\ the_month = YearMonth(2024, 2)
    /\ DOMAIN cj \cap UsageFilterKeys # {}
    /\ Len(the_usages) > 0
    /\ PassingUsages = <<>>
    /\ IsLine(result)
    /\ result.amount_used = Fx(29)

\* the component and usage of the worked example: 30 c/kWh on PEAK records
ExampleSource ==
    ("amberLabel" :> JStr("Peak")) @@ ("centsPerKwh" :> JNum(30))
        @@ ("periodFilter" :> JList(<<JStr("peak")>>))

\* C8: a PerKwh component that is not suppressed has quantity = sum of kWh over
\* exactly the records passing its filter set and unit price = configured
\* cents per kWh (no line when the rounded total is 0); price 30 with
\* periodFilter [PEAK] over (2 kWh PEAK, 5 kWh OFFPEAK) gives 2, 30, 60.
C8_PerKwh ==
    (/\ pc = "create_line_for_component"
     /\ IsPerKwh
     /\ ~ suppressed_by_filters(the_component, the_month))
    => LET unit_price == Fx(cj["centsPerKwh"].v)
           total == Round(PassingKwh * unit_price, Scale * Scale)
       IN  /\ result = IF total = 0 THEN JNone
                       ELSE LineItem(cj["amberLabel"], PassingKwh, unit_price, total)
           /\ (cj = ExampleSource /\ the_usages = <<usage_weekday_peak, usage_weekend_offpeak>>)
                  => result = LineItem(JStr("Peak"), Fx(2), Fx(30), 60)

C8_Witness ==
    /\ pc = "create_line_for_component"
    /\ cj = ExampleSource
    /\ the_usages = <<usage_weekday_peak, usage_weekend_offpeak>>
    /\ IsLine(result)
    /\ result.total_cost = 60

\* C9: for a PerPeakDemandKw line item the unit price is the configured price
\* times the peak record's kWh times (60 / its interval duration in minutes),
\* and the quantity is the number of days of the month.
C9_PeakDemandKw ==
    (pc = "create_line_for_component" /\ IsPerPeak /\ IsLine(result)) =>
        /\ result.amount_used = Fx(DaysInMonth(the_month))
        /\ result.unit_price =
               cj["centsPerPeakDemandKwPerDay"].v * ((peak_log.kwh * 60) \div peak_log.duration)

\* the positions of the filtered records with the largest kWh
MaxPositions ==
    {i \in DOMAIN PassingUsages :
        \A j \in DOMAIN PassingUsages : PassingUsages[j].kwh <= PassingUsages[i].kwh}

\* C10: the record reported as the peak is the first of the filtered records
\* that have the maximum kWh.
C10_FirstMaximum ==
    (pc = "create_line_for_component" /\ peak_log # NoUsage) =>
        /\ MaxPositions # {}
        /\ peak_log = PassingUsages[CHOOSE i \in MaxPositions : \A j \in MaxPositions : i <= j]

C10_Witness ==
    /\ pc = "create_line_for_component"
    /\ peak_log # NoUsage
    /\ Cardinality(MaxPositions) = 2
    /\ peak_log = PassingUsages[1]
    /\ IsLine(result)

----------------------------------------------------------------------------
(* Properties of fee lines (checked under SpecFees) *)

\* the total a per-kWh source yields before it is rounded, in cents * Scale^2
UnroundedPerKwh == PassingKwh * Fx(Get(cj, "centsPerKwh").v)

\* C11: no line item returned by create_line_for_component or contained in the
\* result of get_fee_lines_for has a total cost of 0; a per-kWh component
\* whose rounded total is zero yields no line item.
C11_NoZeroLine ==
    /\ pc = "create_line_for_component" /\ IsLine(result) => result.total_cost # 0
    /\ (pc = "create_line_for_component" /\ IsPerKwh
           /\ Round(UnroundedPerKwh, Scale * Scale) = 0) => result = JNone
    /\ pc = "get_fee_lines_for" /\ ~ IsExc(result) =>
           \A i \in DOMAIN result.v : IsLine(result.v[i]) /\ result.v[i].total_cost # 0

\* usage that costs less than a cent under a component is left out of the list
C11_Witness ==
    /\ pc = "get_fee_lines_for"
    /\ the_args.tariff_component_filter = "all"
    /\ the_usages = <<usage_feed_in_15min>>
    /\ ~ IsExc(the_tariff)
    /\ Len(the_tariff.components) = 2
    /\ the_tariff.components[1].amber_label = JStr("Small")
    /\ the_tariff.components[2].amber_label = JStr("Supply")
    /\ ~ IsExc(result)
    /\ Len(result.v) = 1
    /\ result.v[1].label = JStr("Supply")

\* C12: the total cost of every line item returned by create_line_for_component
\* is an integer within one cent of the product of the quantity and the unit
\* price stored in that line item.
C12_RoundedProduct ==
    pc = "create_line_for_component" /\ IsLine(result) =>
        LET d == result.total_cost * Scale * Scale - result.amount_used * result.unit_price
        IN  /\ result.total_cost \in Int
            /\ - (Scale * Scale) < d
            /\ d < Scale * Scale

\* a line whose product of quantity and unit price is not a whole number of cents
C12_Witness ==
    /\ pc = "create_line_for_component"
    /\ IsLine(result)
    /\ result.total_cost * Scale * Scale # result.amount_used * result.unit_price

\* the line items of the selected components of the tariff, in declaration order
ExpectedFeeLines ==
    LET cs == the_tariff.components
        lines == [i \in DOMAIN cs |->
                     IF tariff_component_filter(the_args.tariff_component_filter, cs[i])
                     THEN create_line_for_component(cs[i], the_month, the_usages).ret
                     ELSE JNone]
    IN  SelectSeq(lines, IsLine)

\* C13: get_fee_lines_for returns exactly the line items of the components
\* that satisfy the selector, in declaration order, and returns the empty
\* list when the usage list is empty, per-day components included.
C13_FeeLinesInOrder ==
    pc = "get_fee_lines_for" =>
        IF the_usages = <<>> THEN result = JList(<<>>)
        ELSE ~ IsExc(result) /\ result.v = ExpectedFeeLines

----------------------------------------------------------------------------
(* Properties of wholesale fees (checked under SpecWholesale) *)

\* the distribution loss factor the tariff's source declares (1.0 by default)
DeclaredLossFactor ==
    IF "distributionLossFactor" \in DOMAIN tj.v THEN tj.v["distributionLossFactor"].v
    ELSE Fx(1)

\* kWh times spot price summed over the usage of the call, in cents * Scale^2
SpotCents == SumSeq([i \in DOMAIN the_usages |->
                        the_usages[i].kwh * the_usages[i].spot_per_kwh])

\* round(SpotCents * L [/ 1.1] + extra_charges) with L the product of the two
\* loss factors, or its reciprocal
ExpectedWholesaleCents ==
    LET l == DeclaredLossFactor * the_account.marginal_loss_factor
        gst_num == IF the_args.remove_gst THEN 10 ELSE 1
        gst_den == IF the_args.remove_gst THEN 11 ELSE 1
    IN  IF the_args.invert_loss_factor
        THEN Round(SpotCents * gst_num + the_args.extra_charges * (l * gst_den), l * gst_den)
        ELSE Round(SpotCents * l * gst_num
                       + the_args.extra_charges * (Scale * Scale * Scale * Scale * gst_den),
                   Scale * Scale * Scale * Scale * gst_den)

\* the example of the claim: 10 kWh fed in at a spot price of 5, loss factors 1.0
WholesaleExample ==
    /\ pc = "get_wholesales_fees_for"
    /\ the_usages = <<usage_feed_in_10kwh>>
    /\ DeclaredLossFactor = Fx(1)
    /\ the_account.marginal_loss_factor = Fx(1)
    /\ the_args.extra_charges = 0
    /\ the_args.invert_loss_factor
    /\ ~ the_args.remove_gst
    /\ the_args.negate_total

\* C14: the total of the line get_wholesales_fees_for returns is
\* round(sum(kwh * spot) * L [/ 1.1 when remove_gst] + extra_charges), where L is
\* distribution_loss_factor * marginal_loss_factor, or 1 / L when
\* invert_loss_factor, with its sign flipped when negate_total; the example
\* yields -50.
C14_WholesaleTotal ==
    pc = "get_wholesales_fees_for" =>
        /\ result.total_cost = IF the_args.negate_total THEN - ExpectedWholesaleCents
                               ELSE ExpectedWholesaleCents
        /\ WholesaleExample => result.total_cost = -50

\* the example of the claim has been computed
C14_Witness ==
    /\ WholesaleExample
    /\ result.total_cost = -50

\* C15 (as claimed): the unit price of the line equals the line's returned
\* total divided by its total kWh when that is not zero, and is 0 otherwise.
C15_UnitPriceOfReturnedTotal ==
    pc = "get_wholesales_fees_for" =>
        IF result.amount_used # 0
        THEN result.unit_price.num * result.amount_used
                 = result.total_cost * Scale * result.unit_price.den
        ELSE result.unit_price.num = 0

\* C15 (amended): the unit price of the line equals the rounded total before
\* negate_total flips its sign, divided by the total kWh, when the total kWh is
\* not zero, and is 0 otherwise; with negate_total it is the returned total
\* divided by the total kWh with the opposite sign.
C15_UnitPriceBeforeNegation ==
    pc = "get_wholesales_fees_for" =>
        LET unsigned == IF the_args.negate_total THEN - result.total_cost
                        ELSE result.total_cost
        IN  IF result.amount_used # 0
            THEN result.unit_price.num * result.amount_used
                     = unsigned * Scale * result.unit_price.den
            ELSE result.unit_price.num = 0

\* a negated line with a non-zero total over non-zero usage
C15_Witness ==
    /\ pc = "get_wholesales_fees_for"
    /\ the_args.negate_total
    /\ result.amount_used # 0
    /\ result.total_cost < 0
    /\ result.unit_price.num > 0

----------------------------------------------------------------------------
(* Properties of the monthly invoice (checked under SpecInvoice) *)

\* the loop body has run to its end for the month
Assembled == pc = "invoice" /\ ~ IsExc(result)

HasSection(name) == \E i \in DOMAIN result.sections : result.sections[i].section = name

SectionItems(name) ==
    result.sections[CHOOSE i \in DOMAIN result.sections :
                        result.sections[i].section = name].items

\* the month's usage records of a channel, in the order fetched
UsageOf(channel_type) ==
    LET of_channel(u) == u.channel_type = channel_type
    IN  SelectSeq(the_usages, of_channel)

KwhOf(usages) == SumSeq([i \in DOMAIN usages |-> usages[i].kwh])

\* the lines of the per-kWh components a tariff file declares, in the file's
\* order, over the given usage
PerKwhLinesOf(tariff_file, usages) ==
    LET listed == tariff_file.v["components"].v
        lines == [i \in DOMAIN listed |->
                     IF Truthy(Get(listed[i], "centsPerKwh"))
                     THEN estimate_create_line_for_component(
                              listed[i]["amberLabel"], the_month,
                              estimate_TariffComponent_init(listed[i]),
                              the_config.green_power_active, UsageOf("FEED_IN") # <<>>,
                              usages)
                     ELSE JNone]
    IN  SelectSeq(lines, IsLine)

\* C16: assembling a month's invoice never fails with a division by zero,
\* whatever the usage; a wholesale or export line over usage that totals
\* 0 kWh is omitted or carries a unit price of 0.
C16_NoDivisionByZero ==
    pc = "invoice" =>
        /\ ~ IsExc(result)
        /\ \A i \in DOMAIN result.sections :
               \A k \in DOMAIN result.sections[i].items :
                   result.sections[i].items[k].amount_used = 0
                       => result.sections[i].items[k].unit_price.num = 0

\* C17: the "Usage Fees" section of an assembled invoice is, in this order,
\* the GENERAL wholesale line (iff there is GENERAL usage), the CONTROLLED_LOAD
\* wholesale line (iff there is CONTROLLED_LOAD usage), the per-kWh lines of the
\* general tariff over GENERAL usage, of the controlled-load tariff over
\* CONTROLLED_LOAD usage and of the other charges over GENERAL followed by
\* CONTROLLED_LOAD usage; no FEED_IN record is part of any of them.
C17_UsageFeesOrder ==
    Assembled =>
        LET general == UsageOf("GENERAL")
            controlled == UsageOf("CONTROLLED_LOAD")
            n_general == IF general # <<>> THEN 1 ELSE 0
            n_controlled == IF controlled # <<>> THEN 1 ELSE 0
            fees == SectionItems("Usage Fees")
        IN  /\ HasSection("Usage Fees")
            /\ Len(fees) >= n_general + n_controlled
            /\ general # <<>> =>
                   /\ fees[1].label = JStr("General Usage Wholesale")
                   /\ fees[1].amount_used = KwhOf(general)
            /\ controlled # <<>> =>
                   /\ fees[n_general + 1].label = JStr("Controlled Load Wholesale")
                   /\ fees[n_general + 1].amount_used = KwhOf(controlled)
            /\ SubSeq(fees, n_general + n_controlled + 1, Len(fees))
                   = PerKwhLinesOf(the_config.tariff_files["general"], general)
                         \o PerKwhLinesOf(the_config.tariff_files["controlledLoad"], controlled)
                         \o PerKwhLinesOf(the_config.other_charges_file,
                                          general \o controlled)

\* usage on all three channels and lines of all five kinds
C17_Witness ==
    /\ Assembled
    /\ UsageOf("GENERAL") # <<>>
    /\ UsageOf("CONTROLLED_LOAD") # <<>>
    /\ UsageOf("FEED_IN") # <<>>
    /\ PerKwhLinesOf(the_config.tariff_files["general"], UsageOf("GENERAL")) # <<>>
    /\ PerKwhLinesOf(the_config.tariff_files["controlledLoad"], UsageOf("CONTROLLED_LOAD")) # <<>>
    /\ Len(SectionItems("Usage Fees")) >= 6

\* the general tariff file declares a component priced per peak-demand kW per day
DeclaresPeakDemand ==
    LET listed == the_config.tariff_files["general"].v["components"].v
    IN  \E i \in DOMAIN listed : Truthy(Get(listed[i], "centsPerPeakDemandKwPerDay"))

\* C18: an assembled invoice has a "Peak Demand Fees" section if and only if
\* the month has GENERAL usage and the general tariff has a component priced
\* per peak-demand kW per day.
C18_PeakDemandSection ==
    Assembled =>
        (HasSection("Peak Demand Fees") <=> (UsageOf("GENERAL") # <<>> /\ DeclaresPeakDemand))

\* C19: every assembled invoice has an "Amber Fees" section of exactly one
\* line, whose total is round(fee_inc_gst_dollars * 100 / 1.1), whose quantity
\* is the number of days of the month and whose unit price is that total
\* divided by the number of days; 11 dollars over 30 days gives 1000 cents.
C19_AmberFees ==
    Assembled =>
        /\ HasSection("Amber Fees")
        /\ Cardinality({i \in DOMAIN result.sections :
                           result.sections[i].section = "Amber Fees"}) = 1
        /\ LET items == SectionItems("Amber Fees")
                fee_ex_gst == items[1].total_cost
                \* 11 * (fee_ex_gst - fee_inc_gst_cents / 1.1)
                error == 11 * fee_ex_gst - 10 * the_config.amber_fee_dollars_inc_gst
            IN  /\ Len(items) = 1
                /\ -11 <= 2 * error /\ 2 * error <= 11
                /\ items[1].amount_used = Fx(DaysInMonth(the_month))
                /\ items[1].unit_price.num * DaysInMonth(the_month)
                       = fee_ex_gst * items[1].unit_price.den
                /\ (the_config.amber_fee_dollars_inc_gst = 1100 /\ DaysInMonth(the_month) = 30)
                       => items[1].total_cost = 1000

\* the example of the claim, in a month without any usage
C19_Witness ==
    /\ Assembled
    /\ the_usages = <<>>
    /\ the_config.amber_fee_dollars_inc_gst = 1100
    /\ the_month = YearMonth(2024, 4)
    /\ SectionItems("Amber Fees")[1].total_cost = 1000

\* the distribution loss factor the general tariff file declares (1.0 by default)
GeneralLossFactor ==
    LET file == the_config.tariff_files["general"].v
    IN  IF "distributionLossFactor" \in DOMAIN file THEN file["distributionLossFactor"].v
        ELSE Fx(1)

\* round(sum(kwh * spot) / (distribution_loss_factor * marginal_loss_factor))
\* over the FEED_IN usage plus the totals of the other charges' per-kWh lines
\* over the FEED_IN usage
ExpectedExportCents ==
    LET feed_in == UsageOf("FEED_IN")
        charges == PerKwhLinesOf(the_config.other_charges_file, feed_in)
    IN  Round(SumSeq([i \in DOMAIN feed_in |-> feed_in[i].kwh * feed_in[i].spot_per_kwh]),
              GeneralLossFactor * the_config.marginal_loss_factor)
            + SumSeq([i \in DOMAIN charges |-> charges[i].total_cost])

\* C20: an assembled invoice has a "Your Export Credits" section if and only
\* if the month has FEED_IN usage; the section then has exactly one line, whose
\* total is minus (the rounded spot value of the FEED_IN usage divided by the
\* product of the loss factors, no GST removed, plus the totals of the other
\* charges' per-kWh lines over the FEED_IN usage) and whose quantity is the
\* total FEED_IN kWh.
C20_ExportCredits ==
    Assembled =>
        /\ HasSection("Your Export Credits") <=> UsageOf("FEED_IN") # <<>>
        /\ UsageOf("FEED_IN") # <<>> =>
               LET items == SectionItems("Your Export Credits")
               IN  /\ Len(items) = 1
                   /\ items[1].total_cost = - ExpectedExportCents
                   /\ items[1].amount_used = KwhOf(UsageOf("FEED_IN"))

\* export credits with market charges included and loss factors other than 1
C20_Witness ==
    /\ Assembled
    /\ HasSection("Your Export Credits")
    /\ PerKwhLinesOf(the_config.other_charges_file, UsageOf("FEED_IN")) # <<>>
    /\ GeneralLossFactor * the_config.marginal_loss_factor # Scale * Scale
    /\ SectionItems("Your Export Credits")[1].total_cost < 0

\* the invoice has been printed with its total
Printed == pc = "printed"

\* the sum of the totals of the line items of the sections with or without the
\* name, over the invoice assembled for the month
LineCosts(name, inside) ==
    SumSeq([i \in DOMAIN result.sections |->
               IF (result.sections[i].section = name) = inside
               THEN SumSeq([k \in DOMAIN result.sections[i].items |->
                               result.sections[i].items[k].total_cost])
               ELSE 0])

RECURSIVE ResponsesInOrder(_)
ResponsesInOrder(log) ==
    IF log = <<>> THEN <<>>
    ELSE (IF IsExc(Head(log).response) THEN <<>> ELSE Head(log).response.v)
         \o ResponsesInOrder(Tail(log))

StreamRunning == run.script = "stream_usage_data"
StreamExhausted == StreamRunning /\ pc = "stream_usage_data" /\ run.batches = <<>>

\* C27: for start <= end the requested ranges are consecutive and ascending,
\* each of at most 20 days, the first starting at start_date, none reaching
\* past end_date, the last one of a completed stream ending at end_date, with
\* no gap and no overlap; the records yielded are the responses in request
\* order; for end < start nothing is requested and nothing is yielded
C27_ConsecutiveBatches ==
    StreamRunning =>
        /\ run.end_date < run.start_date => requests = <<>> /\ run.yielded = <<>>
        /\ \A i \in 1..Len(requests) :
               /\ requests[i].batch_start <= requests[i].batch_end
               /\ requests[i].batch_end - requests[i].batch_start + 1 <= 20
               /\ requests[i].batch_end <= run.end_date
               /\ i = 1 => requests[i].batch_start = run.start_date
               /\ i > 1 => requests[i].batch_start = requests[i - 1].batch_end + 1
        /\ StreamExhausted /\ run.start_date <= run.end_date =>
               /\ requests # <<>>
               /\ requests[Len(requests)].batch_end = run.end_date
        /\ run.yielded = ResponsesInOrder(requests)

\* a range of more than 40 days was streamed to its end in three requests, two
\* of which returned records
C27_Witness ==
    /\ StreamExhausted
    /\ Len(requests) = 3
    /\ requests[3].batch_end - requests[3].batch_start + 1 < 20
    /\ Len(run.yielded) >= 2
    /\ \E i, j \in 1..3 : i # j /\ requests[i].response.v # <<>> /\ requests[j].response.v # <<>>


RunDone ==
    /\ InvoiceRun
    /\ pc = "next_month"
    /\ run.months = <<>>
    /\ Len(output) = Len(run.invoices)

\* the requests of the last pass over a month, from the one starting on its
\* first day to the one ending on its last day
LastRound(month) ==
    LET starts == {i \in 1..Len(requests) : requests[i].batch_start = first_date(month)}
        first == CHOOSE i \in starts : \A k \in starts : k <= i
        last == CHOOSE j \in first..Len(requests) :
                    /\ requests[j].batch_end = last_date(month)
                    /\ \A k \in first..(j - 1) : requests[k].batch_end # last_date(month)
    IN  SubSeq(requests, first, last)

\* C23: whatever the order of the requested months, and with repeated months,
\* the invoices are output in strictly ascending (year, month) order, each
\* distinct requested month once, and each is the invoice of the usage fetched
\* for that month under the configuration
C23_InvoicesAscending ==
    InvoiceRun =>
        /\ \A i, j \in 1..Len(output) :
               i < j => \/ output[i].month.year < output[j].month.year
                        \/ /\ output[i].month.year = output[j].month.year
                           /\ output[i].month.month < output[j].month.month
        /\ \A i \in 1..Len(output) :
               /\ output[i].month \in Range(run.args_months)
               /\ output[i] = print_invoice(output[i].month,
                                  assemble_invoice(the_config, output[i].month,
                                      ResponsesInOrder(LastRound(output[i].month))))
        /\ RunDone => {output[i].month : i \in 1..Len(output)} = Range(run.args_months)

\* two months were requested latest first, and both invoices are out, one of
\* them with usage fees
C23_Witness ==
    /\ RunDone
    /\ Len(run.args_months) >= 2
    /\ YearMonth_lt(run.args_months[2], run.args_months[1])
    /\ Len(output) = 2
    /\ \E i \in 1..2 : \E k \in 1..Len(output[i].sections) :
           /\ output[i].sections[k].section = "Usage Fees"
           /\ output[i].sections[k].items # <<>>

\* C24: a failed request is the last request of the run: the run has ended
\* with the RuntimeError, nothing was retried or requested afterwards, and no
\* invoice is output, not even for the months computed before it; nothing
\* is output while a month is still to be computed
C24_FetchFailureStopsRun ==
    InvoiceRun =>
        /\ \A i \in 1..Len(requests) :
               IsExc(requests[i].response) =>
                   /\ i = Len(requests)
                   /\ pc = "failed"
                   /\ result = Raise("RuntimeError")
                   /\ output = <<>>
        /\ output # <<>> => run.months = <<>> /\ pc = "next_month"

\* the second batch of the second month failed after the first month's
\* invoice had been computed
C24_Witness ==
    /\ InvoiceRun
    /\ pc = "failed"
    /\ Len(run.invoices) = 1
    /\ Len(requests) = 4
    /\ IsExc(requests[4].response)
    /\ output = <<>>


\* the sum of a field over the records of a sequence that satisfy a test
SumWhere(records, field, keep) ==
    SumSeq([i \in 1..Len(records) |-> IF records[i] \in keep THEN records[i][field] ELSE 0])

UsageSummaryReturned == run.script = "amber_usage_summary" /\ pc = "returned"

\* C25: get_usage_summary returns one summary per (date, channel identifier)
\* pair among the fetched records, whose consumption_kwh and cost_cents are
\* the sums of kwh and cost over all fetched records of the pair, the first
\* one included
C25_SummaryPerDateAndChannel ==
    UsageSummaryReturned =>
        LET fetched == run.yielded
            summaries == result.v
            of_pair(key) == {u \in Range(fetched) : <<u.date, u.channelIdentifier>> = key}
        IN  /\ {summaries[i].key : i \in 1..Len(summaries)}
                   = {<<u.date, u.channelIdentifier>> : u \in Range(fetched)}
            /\ \A i, j \in 1..Len(summaries) : summaries[i].key = summaries[j].key => i = j
            /\ \A i \in 1..Len(summaries) :
                   /\ summaries[i].value.consumption_kwh
                          = SumWhere(fetched, "kwh", of_pair(summaries[i].key))
                   /\ summaries[i].value.cost_cents
                          = SumWhere(fetched, "cost", of_pair(summaries[i].key))

SolarSummaryReturned == run.script = "amber_solar_export_summary" /\ pc = "returned"

\* the largest of a non-empty set of numbers
MaxOf(numbers) == CHOOSE n \in numbers : \A k \in numbers : k <= n

\* C26: get_solar_export_monthly_summary returns one summary per month with
\* FEED_IN records; its total_kwh is the sum of their kWh, days_covered the
\* number of their distinct dates, average_daily_kwh times days_covered is
\* total_kwh, and peak_daily_kwh and peak_period_kw are the maxima over all
\* those days, the first day included
C26_MonthlySolarSummary ==
    SolarSummaryReturned =>
        LET feed_in == {u \in Range(run.yielded) : u.channel_type = "FEED_IN"}
            month_of(u) == YearMonth(u.date.year, u.date.month)
            summaries == result.v
            in_month(ym) == {u \in feed_in : month_of(u) = ym}
            on_day(dt) == {u \in feed_in : u.date = dt}
            days(ym) == {u.date : u \in in_month(ym)}
        IN  /\ {summaries[i].key : i \in 1..Len(summaries)} = {month_of(u) : u \in feed_in}
            /\ \A i, j \in 1..Len(summaries) : summaries[i].key = summaries[j].key => i = j
            /\ \A i \in 1..Len(summaries) :
                   LET ym == summaries[i].key
                       summary == summaries[i].value
                   IN  /\ summary.total_kwh = SumWhere(run.yielded, "kwh", in_month(ym))
                       /\ summary.days_covered = Cardinality(days(ym))
                       /\ summary.average_daily_kwh.num * summary.days_covered
                              = summary.total_kwh * summary.average_daily_kwh.den
                       /\ summary.peak_daily_kwh
                              = MaxOf({SumWhere(run.yielded, "kwh", on_day(dt)) : dt \in days(ym)})
                       /\ \A u \in in_month(ym) :
                              u.kwh * 60 * summary.peak_period_kw.den
                                  <= summary.peak_period_kw.num * Scale * u.duration
                       /\ \E u \in in_month(ym) :
                              u.kwh * 60 * summary.peak_period_kw.den
                                  = summary.peak_period_kw.num * Scale * u.duration


\* C28: create_line_for_component on a constructed peak-demand component never
\* raises; when base_usages is not empty and the component's usage filters
\* exclude every record, it returns no line item
C28_PeakDemandNeverRaises ==
    (pc = "create_line_for_component" /\ IsPerPeak) =>
        /\ ~ IsExc(result)
        /\ (the_usages # <<>> /\ PassingUsages = <<>>) => result = JNone


\* the assembler's component for the source the engine's component was built
\* from, and the line it computes for the same call
AssemblerComponent == estimate_TariffComponent_init(cj)

AssemblerLine ==
    estimate_create_line_for_component(AssemblerComponent.amber_label, the_month,
                                       AssemblerComponent, the_account.greenpower_active,
                                       the_account.feed_in_active, the_usages)

\* the same outcome: both suppressed, or line items with the same label,
\* quantity, unit price and total
SameLine(engine_line, assembler_line) ==
    /\ ~ IsExc(engine_line)
    /\ ~ IsExc(assembler_line)
    /\ IsLine(engine_line) <=> IsLine(assembler_line)
    /\ IsLine(engine_line) =>
           /\ engine_line.label = assembler_line.label
           /\ engine_line.amount_used = assembler_line.amount_used
           /\ engine_line.unit_price * assembler_line.unit_price.den
                  = assembler_line.unit_price.num * Scale
           /\ engine_line.total_cost = assembler_line.total_cost

\* C29: for a source accepted by both constructors, the line (or suppression)
\* of the assembler's create_line_for_component equals the one of the
\* engine's, for every month, account setting and usage sequence, whatever
\* filters the source has
C29_AssemblerAgreesWithEngine ==
    (pc = "create_line_for_component" /\ ~ IsExc(AssemblerComponent)) =>
        SameLine(result, AssemblerLine)


\* C30: on every date, the 29th, 30th and 31st included, one_month_ago returns
\* a valid date and last_year_month returns the calendar month before the
\* current one, December of the previous year in January
C30_LastMonthAlwaysComputable ==
    pc = "last_year_month" =>
        LET today == run.today
            ago == one_month_ago(today)
        IN  /\ ~ IsExc(ago)
            /\ ago.month \in 1..12
            /\ ago.day \in 1..DaysInMonth(YearMonth(ago.year, ago.month))
            /\ ~ IsExc(result)
            /\ result = IF today.month = 1 THEN YearMonth(today.year - 1, 12)
                        ELSE YearMonth(today.year, today.month - 1)

====
